---------------------------- MODULE Spec2Model ----------------------------
(***************************************************************************)
(* MySSH front end: the Terminal and FileBrowser components, the tab bar   *)
(* of App.vue and the useApi.js bridge, together with the session registry *)
(* behind the bridge (ssh_connect, ssh_write, ssh_resize, ssh_disconnect   *)
(* and the per-session data event).                                        *)
(*                                                                         *)
(* One action is one task of the JavaScript event loop: a handler runs     *)
(* from its entry, or from the delivery of the response it awaits, to its  *)
(* next await of a bridge call. Awaits that only yield to microtasks       *)
(* (nextTick, the await of an async function that returned without         *)
(* suspending) do not let another task in and are part of the same action. *)
(* A bridge call that is awaited is held in the caller's flow record from  *)
(* the request to the response; a call that is not awaited (ssh_write,     *)
(* ssh_resize) is put on the wire and applied by the registry later.       *)
(***************************************************************************)
EXTENDS Integers, Sequences, FiniteSets, Bags

\* ------------------------------------------------------------- bounds

\* Component instances that can exist at once (tabs ever opened and not recycled).
MaxComps == 2
\* Concurrent invocations (connect / disconnect / reconnect / watch) per component.
MaxFlows == 2
\* Session ids the registry hands out.
MaxSessions == 2
\* Unawaited requests in flight.
MaxWire == 2
\* Keystrokes typed in a run.
MaxKeys == 2
\* Chunks a remote shell produces per session.
MaxChunks == 2

Comps == 1..MaxComps
Sids == 1..MaxSessions

\* Ids of the server profiles tabs are opened for.
Servers == {1, 2}

\* Terminal sizes FitAddon.fit() can propose (80 x 24 is xterm's size before
\* any fit).
Cols == {80, 120}
Rows == {24}

\* Code points the user can type.
Keys == {97, 233}

\* Profile ids the store hands out.
MaxProfiles == 2
\* Pending calls of Settings, ServerForm and ServerList together.
MaxCalls == 3
\* Backups exported in a run.
MaxExports == 2
\* Clicks and inputs of the user on the form and the list of profiles in a run.
MaxOps == 5
MaxFileOps == 7

Pids == 1..MaxProfiles

\* Paths of the remote file system.
Paths == {"/a", "/b"}

VARIABLES
  life,       \* [Comps -> "free" | "mounted" | "unmounted"]
  kind,       \* [Comps -> "none" | "terminal" | "sftp"]
  props,      \* [Comps -> [server]]: props.server?.id, 0 when there is no server
  term,       \* [Comps -> the module-level state of Terminal.vue]
  flows,      \* [Comps -> the bag of pending invocations]
  sessions,   \* the registry: [Sids -> session], live or not
  nextSid,    \* next fresh session id
  listeners,  \* registered listeners of ssh-data-<sid>: [sid, comp]
  wire,       \* unawaited requests not yet applied by the registry
  hist,       \* per session id: what was produced, written and typed
  nKeys,      \* keystrokes typed so far
  fb,         \* [Comps -> the state of FileBrowser.vue]
  tabs,       \* App.vue: the tab list, each tab with its component
  activeTab,  \* App.vue: the component of the active tab, 0 for null
  event,      \* the task that ran last and the component it ran for
  store,      \* the credential store: [Pids -> <<>> | <<profile>>]
  nextPid,    \* next fresh profile id
  backup,     \* the backup file on the local disk and the salts used so far
  settings,   \* the state of Settings.vue
  sform,      \* the state of ServerForm.vue with its props
  slist,      \* the state of ServerList.vue
  calls,      \* the bag of pending calls of these three components
  out,        \* what the last task of these components alerted and emitted
  ops,        \* how many times the user has acted on these components
  fs,         \* the remote file system: [Paths -> <<>> | <<bytes>>]
  lastWrite   \* per path, the bytes of the last write_file served: <<>> | <<bytes>>

vars == <<life, kind, props, term, flows, sessions, nextSid, listeners, wire, hist, nKeys,
          fb, tabs, activeTab, event,
          store, nextPid, backup, settings, sform, slist, calls, out, ops, fs, lastWrite>>

\* The registry and the histories; the tab bar.
Rest == <<sessions, nextSid, wire, hist, nKeys>>
Disk == <<fs, lastWrite>>
Bar == <<tabs, activeTab>>

\* The profile store, the backup file and the three profile-management
\* components (Settings.vue, ServerForm.vue, ServerList.vue) with their calls.
Desk == <<store, nextPid, backup, settings, sform, slist, calls, out, ops>>

\* The tabs' components with their sessions.
Work == <<life, kind, props, term, flows, sessions, nextSid, listeners, wire, hist, nKeys,
          fb, tabs, activeTab>>


\* ------------------------------------------------------------ helpers

\* An invocation that has ended (it is not kept in the bag).
Idle ==
  [pc |-> "idle", sid |-> 0, cols |-> 0, rows |-> 0, next |-> "none", path |-> "",
   to |-> "", data |-> <<>>, list |-> <<>>]

\* Whether component c can start one more invocation.
FreeFlow(c) == BagCardinality(flows[c]) < MaxFlows

Pending(c) == BagToSet(flows[c])

\* The bag B with invocation old (Idle: none) replaced by new (Idle: none).
Step(B, old, new) ==
  LET B1 == IF old.pc = "idle" THEN B ELSE B (-) SetToBag({old})
  IN IF new.pc = "idle" THEN B1 ELSE B1 (+) SetToBag({new})

Ev(op, c) == [op |-> op, c |-> c]

RECURSIVE Flatten(_)
Flatten(ss) == IF ss = <<>> THEN <<>> ELSE Head(ss) \o Flatten(Tail(ss))

\* TextEncoder.encode of one code point (UTF-8).
encode(cp) ==
  IF cp < 128 THEN <<cp>>
  ELSE IF cp < 2048 THEN <<192 + (cp \div 64), 128 + (cp % 64)>>
  ELSE <<224 + (cp \div 4096), 128 + ((cp \div 64) % 64), 128 + (cp % 64)>>

\* new Uint8Array(event.payload): each element modulo 256.
Uint8Array(payload) == [i \in 1..Len(payload) |-> payload[i] % 256]

\* The bytes of the n-th chunk a remote shell produces.
Chunk(n) == <<n>>

\* The remote file system: the directories / and /etc (read-only), and the
\* paths of Paths in /, each absent (<<>>), a file with its bytes (<<bytes>>)
\* or an empty directory (Folder).
Folder == <<<<>>, <<>>>>

Entry(name, path, is_dir) == [name |-> name, path |-> path, is_dir |-> is_dir]

FileEntry(path, remote) ==
  IF remote[path] = <<>> THEN <<>>
  ELSE <<Entry(IF path = "/a" THEN "a" ELSE "b", path, remote[path] = Folder)>>

\* The path is a directory of the remote.
IsDir(path, remote) == path \in {"/", "/etc"} \/ (path \in DOMAIN remote /\ remote[path] = Folder)

\* The entries the remote lists for a directory.
ListDir(path, remote) ==
  IF path = "/"
  THEN <<Entry("etc", "/etc", TRUE)>> \o FileEntry("/a", remote) \o FileEntry("/b", remote)
  ELSE <<>>

\* `${currentPath}/${name}`, `/${name}` in the root, for the names of the model.
Join(dir, name) ==
  CASE dir = "/" /\ name = "a" -> "/a"
    [] dir = "/" /\ name = "b" -> "/b"
    [] dir = "/etc" /\ name = "a" -> "/etc/a"
    [] dir = "/etc" /\ name = "b" -> "/etc/b"
    [] dir = "/a" /\ name = "a" -> "/a/a"
    [] dir = "/a" /\ name = "b" -> "/a/b"
    [] dir = "/b" /\ name = "a" -> "/b/a"
    [] OTHER -> "/b/b"

\* path.substring(0, path.lastIndexOf("/")).
DirOf(path) == IF path \in {"/etc/a", "/etc/b"} THEN "/etc" ELSE ""

\* goUp(): the parent of a directory.
Parent(path) == "/"

\* pathParts: the paths of the breadcrumbs.
pathParts(path) == IF path = "/" THEN {"/"} ELSE {"/", path}

\* String.prototype.trim() for the inputs of the model.
trim(v) == IF v = " a " THEN "a" ELSE v

\* What the user types into the input modal, and into the editor (code points).
Inputs == {"", "a", "b", " a "}
Texts == {<<104, 101, 108, 108, 111>>, <<233>>}

\* The bytes of the local file a user uploads (as "b"): not UTF-8.
LocalBytes == <<233>>

encodeTextLatin1(text) == [i \in 1..Len(text) |-> text[i] % 256]

\* TextEncoder.encode of a text.
encodeText(text) == Flatten([i \in 1..Len(text) |-> encode(text[i])])

\* The code points of UTF-8 bytes, U+FFFD for each byte that starts no
\* well-formed sequence.
RECURSIVE utf8(_)
utf8(bs) ==
  IF bs = <<>> THEN <<>>
  ELSE LET b == Head(bs)
           n == Len(bs)
           cont(i) == i <= n /\ bs[i] >= 128 /\ bs[i] <= 191
       IN IF b < 128 THEN <<b>> \o utf8(Tail(bs))
          ELSE IF b >= 194 /\ b <= 223 /\ cont(2)
          THEN <<(b - 192) * 64 + (bs[2] - 128)>> \o utf8(SubSeq(bs, 3, n))
          ELSE IF b >= 224 /\ b <= 239 /\ cont(2) /\ cont(3)
          THEN <<(b - 224) * 4096 + (bs[2] - 128) * 64 + (bs[3] - 128)>>
               \o utf8(SubSeq(bs, 4, n))
          ELSE <<65533>> \o utf8(Tail(bs))

\* new TextDecoder().decode(bytes): UTF-8, a leading byte order mark dropped.
decode(bs) ==
  LET cps == utf8(bs)
  IN IF cps # <<>> /\ Head(cps) = 65279 THEN Tail(cps) ELSE cps

\* Array.from(contents): the numbers of the typed array.
ArrayFrom(contents) == [i \in 1..Len(contents) |-> contents[i]]

InitTerm ==
  [status |-> "connecting", errorMessage |-> "",
   terminal |-> FALSE, cols |-> 0, rows |-> 0, handlers |-> 0,
   fitAddon |-> FALSE, sessionId |-> 0, unlistenData |-> 0,
   resizeObserver |-> FALSE, leakedObserver |-> FALSE,
   lastCols |-> 0, lastRows |-> 0]

\* FileBrowser.vue: the refs and sessionId. selectedFile is the position of
\* the file in files (0: null), editorFile its path ("": null), deleteTarget
\* and inputModalTarget the entry in a sequence (<<>>: null). contentFrom
\* remembers the path whose bytes editorContent was decoded from ("": none),
\* alert the message of the last alert() of loadDirectory ("": none yet).
InitFb ==
  [status |-> "connecting", errorMessage |-> "", sessionId |-> 0,
   currentPath |-> "/", files |-> <<>>, loading |-> FALSE, selectedFile |-> 0,
   showEditor |-> FALSE, editorFile |-> "", editorContent |-> <<>>,
   editorLoading |-> FALSE, showDeleteConfirm |-> FALSE, deleteTarget |-> <<>>,
   uploading |-> FALSE, showInputModal |-> FALSE, inputModalType |-> "",
   inputModalValue |-> "", inputModalTarget |-> <<>>, contentFrom |-> "",
   alert |-> ""]

NoSession ==
  [live |-> FALSE, kind |-> "none", cols |-> 0, rows |-> 0, stdin |-> <<>>, out |-> 0,
   ended |-> "none"]

\* What is remembered of session id s: the component whose call opened it,
\* whether the connect call has returned it, whether a disconnect() for it has
\* completed, the size last sent for it
\* (with ssh_connect or ssh_resize), the bytes produced since it was returned,
\* the bytes written to the terminal, the writes issued.
InitHist ==
  [owner |-> 0, returned |-> FALSE, done |-> FALSE, cols |-> 0, rows |-> 0,
   expected |-> <<>>, written |-> <<>>, issued |-> <<>>]

\* ------------------------------------------- profiles, store and backups

\* Text is a string, "" when empty; a backup password is the sequence of its
\* characters, because handlePasswordSubmit looks at its length.
Passwords == {<<97, 98, 99>>, <<97, 98, 99, 100>>, <<119, 120, 121, 122>>}

\* ServerForm.vue: getDefaultForm(). id 0 stands for null.
getDefaultForm ==
  [id |-> 0, name |-> "", host |-> "", port |-> 22, username |-> "root",
   auth_type |-> "password", password |-> "", private_key |-> "", passphrase |-> "",
   proxy_enabled |-> FALSE, proxy_type |-> "socks5", proxy_host |-> "",
   proxy_port |-> 1080, proxy_username |-> "", proxy_password |-> "",
   jump_host |-> "", notes |-> ""]

\* What a user can have typed into the fields of the form (all but the id):
\* two forms that handleSubmit accepts, one for each auth variant, and one
\* form for each field it requires.
Typed ==
  { [getDefaultForm EXCEPT !.name = "www", !.host = "h1", !.password = "pw"],
    [getDefaultForm EXCEPT !.name = "db", !.host = "h2", !.port = 2222,
       !.username = "ops", !.auth_type = "key", !.private_key = "KEY",
       !.passphrase = "pp", !.password = "old", !.notes = "n",
       !.proxy_enabled = TRUE, !.proxy_type = "http", !.proxy_host = "px",
       !.proxy_port = 8080, !.proxy_username = "u", !.proxy_password = "s"],
    [getDefaultForm EXCEPT !.name = "www", !.host = "h1"],
    [getDefaultForm EXCEPT !.name = "www", !.host = "h1", !.auth_type = "key",
       !.password = "pw"],
    [getDefaultForm EXCEPT !.host = "h1", !.password = "pw"],
    [getDefaultForm EXCEPT !.name = "www", !.password = "pw"],
    [getDefaultForm EXCEPT !.name = "www", !.host = "h1", !.username = "",
       !.password = "pw"] }

\* The stored profile of a save_server request under id: the auth variant
\* with its secret, the proxy only when it is enabled (<<>> for none).
Profile(request, id) ==
  [id |-> id, name |-> request.name, host |-> request.host, port |-> request.port,
   username |-> request.username,
   auth |-> IF request.auth_type = "key"
            THEN [type |-> "PrivateKey", value |-> "", key |-> request.private_key,
                  passphrase |-> request.passphrase]
            ELSE [type |-> "Password", value |-> request.password, key |-> "",
                  passphrase |-> ""],
   proxy |-> IF request.proxy_enabled
             THEN <<[proxy_type |-> request.proxy_type, host |-> request.proxy_host,
                     port |-> request.proxy_port, username |-> request.proxy_username,
                     password |-> request.proxy_password]>>
             ELSE <<>>,
   jump_host |-> request.jump_host, notes |-> request.notes]

\* The store: each id with its profile, <<>> when the id has none. It
\* starts with the one profile the tabs of a run are opened for.
EmptyStore == [p \in Pids |-> <<>>]

SeedStore ==
  [EmptyStore EXCEPT ![1] =
     <<Profile([getDefaultForm EXCEPT !.name = "web", !.host = "h1",
                                      !.password = "pw"], 1)>>]

Stored(st) == {p \in Pids : st[p] # <<>>}

\* A backup blob: the salt of its export, the password its key was derived
\* from and the profiles it encrypts; a file that is no backup is not intact.
\* typed records the password that stood in the dialog at the export.
Blob(salt, password, st, typed) ==
  [salt |-> salt, key |-> password, data |-> st, intact |-> TRUE, typed |-> typed]

Garbage ==
  [salt |-> 0, key |-> <<>>, data |-> EmptyStore, intact |-> FALSE, typed |-> <<>>]

\* Settings.vue: the refs of the component and its visible prop.
InitSettings ==
  [visible |-> FALSE, showPasswordModal |-> FALSE, passwordModalMode |-> "export",
   password |-> <<>>, confirmPassword |-> <<>>, importData |-> <<>>,
   loading |-> FALSE]

\* ServerForm.vue: the props (serverId 0 for null) and the refs.
InitForm ==
  [serverId |-> 0, visible |-> FALSE, form |-> getDefaultForm, loading |-> FALSE,
   allServers |-> {}]

\* ServerList.vue: the refs.
InitList ==
  [servers |-> {}, loading |-> TRUE, showDeleteConfirm |-> FALSE, deleteTarget |-> 0]

\* A pending call of one of the three components: who made it, where it is,
\* and what it carries (the profile id, the blob, the password, the request,
\* the outcome, the count, the ids of a listing), with what stood in the
\* component when it was made (the serverId prop, the password of the dialog).
Call(who, pc) ==
  [who |-> who, pc |-> pc, id |-> 0, data |-> <<>>, pw |-> <<>>, form |-> <<>>,
   ok |-> TRUE, n |-> 0, ids |-> {}, prop |-> 0, typed |-> <<>>]

NoCall == Call("none", "idle")

FreeCall == BagCardinality(calls) < MaxCalls

PendingCalls == BagToSet(calls)

Init ==
  /\ life = [c \in Comps |-> "free"]
  /\ kind = [c \in Comps |-> "none"]
  /\ props = [c \in Comps |-> [server |-> 0]]
  /\ term = [c \in Comps |-> InitTerm]
  /\ fb = [c \in Comps |-> InitFb]
  /\ flows = [c \in Comps |-> EmptyBag]
  /\ sessions = [s \in Sids |-> NoSession]
  /\ nextSid = 1
  /\ listeners = {}
  /\ wire = <<>>
  /\ hist = [s \in Sids |-> InitHist]
  /\ nKeys = 0
  /\ tabs = <<>>
  /\ activeTab = 0
  /\ event = Ev("init", 0)
  /\ store = SeedStore
  /\ nextPid = Cardinality(Stored(SeedStore)) + 1
  /\ backup = [file |-> <<>>, salts |-> 0]
  /\ settings = InitSettings
  /\ sform = InitForm
  /\ slist = InitList
  /\ calls = SetToBag({Call("list", "servers_sent"), Call("form", "servers_sent")})
  /\ out = {}
  /\ ops = 0
  /\ fs = [p \in Paths |-> IF p = "/a" THEN <<<<104, 105>>>> ELSE <<>>]
  /\ lastWrite = [p \in Paths |-> <<>>]

\* ------------------------------------------------- Terminal.vue handlers

\* connect(), from its entry to the ssh_connect request. (w, h) is the size
\* fitAddon.fit() finds for the container. terminal.open(null) throws when the
\* component is no longer mounted (terminalRef.value is null).
connect(t, mounted, server, w, h) ==
  IF server = 0 THEN [t |-> t, fl |-> Idle]
  ELSE LET t1 == [t EXCEPT !.status = "connecting", !.errorMessage = "",
                           !.terminal = TRUE, !.handlers = 0, !.fitAddon = TRUE,
                           !.cols = 80, !.rows = 24]
       IN IF ~mounted
          THEN [t |-> [t1 EXCEPT !.status = "error",
                                 !.errorMessage = "Error: Terminal requires a parent element"],
                fl |-> Idle]
          ELSE [t |-> [t1 EXCEPT !.cols = w, !.rows = h],
                fl |-> [Idle EXCEPT !.pc = "conn_sent", !.cols = w, !.rows = h]]

\* disconnect() below its first if: the listener, the observer, the terminal.
cleanup(t) ==
  [t EXCEPT !.unlistenData = 0, !.resizeObserver = FALSE,
            !.terminal = FALSE, !.handlers = 0, !.cols = 0, !.rows = 0]

\* unlistenData(): the listener the handle stands for is unregistered.
unlisten(handle) == {l \in listeners : l.sid # handle}

\* The rest of invocation f once disconnect() is past its await (f is Idle
\* when it never awaited): clean up, then connect() when the caller goes on
\* to it ("connect") or nothing ("none").
afterDisconnect(c, f, next, t, mounted, server, w, h) ==
  LET t1 == cleanup(t)
      r == IF next = "connect" THEN connect(t1, mounted, server, w, h)
           ELSE [t |-> t1, fl |-> Idle]
  IN /\ (f.pc = "idle" /\ r.fl.pc # "idle") => FreeFlow(c)
     /\ term' = [term EXCEPT ![c] = r.t]
     /\ listeners' = unlisten(t.unlistenData)
     /\ flows' = [flows EXCEPT ![c] = Step(@, f, r.fl)]

\* disconnect() without the test of sessionId: the request is sent for
\* whatever the variable holds.
disconnectAlways(c, next, mounted, server, w, h) ==
  /\ FreeFlow(c)
  /\ flows' = [flows EXCEPT ![c] = Step(@, Idle,
                 [Idle EXCEPT !.pc = "disc_sent", !.sid = term[c].sessionId,
                              !.next = next])]
  /\ UNCHANGED <<term, listeners>>

\* disconnect() followed by what the caller does next ("connect" or "none").
disconnect(c, next, mounted, server, w, h) ==
  IF term[c].sessionId # 0
  THEN /\ FreeFlow(c)
       /\ flows' = [flows EXCEPT ![c] = Step(@, Idle,
                      [Idle EXCEPT !.pc = "disc_sent", !.sid = term[c].sessionId,
                                   !.next = next])]
       /\ UNCHANGED <<term, listeners>>
  ELSE afterDisconnect(c, Idle, next, term[c], mounted, server, w, h)

\* A Terminal with server s is created and mounted: onMounted.
MountTerm(c, s, w, h) ==
  /\ life[c] = "free"
  /\ life' = [life EXCEPT ![c] = "mounted"]
  /\ kind' = [kind EXCEPT ![c] = "terminal"]
  /\ props' = [props EXCEPT ![c] = [server |-> s]]
  /\ LET r == connect(InitTerm, TRUE, s, w, h)
     IN /\ term' = [term EXCEPT ![c] = r.t]
        /\ flows' = [flows EXCEPT ![c] = Step(@, Idle, r.fl)]
  /\ UNCHANGED <<fb, listeners>>

\* The Terminal is unmounted: onUnmounted.
UnmountTerm(c) ==
  /\ life[c] = "mounted" /\ kind[c] = "terminal"
  /\ life' = [life EXCEPT ![c] = "unmounted"]
  /\ disconnect(c, "none", FALSE, props[c].server, 80, 24)
  /\ UNCHANGED <<kind, props, fb>>

TermMount(c, s, w, h) ==
  /\ event' = Ev("mount", c)
  /\ UNCHANGED <<Desk, Disk>>
  /\ MountTerm(c, s, w, h)
  /\ UNCHANGED <<Rest, Bar>>

TermUnmount(c) ==
  /\ event' = Ev("unmount", c)
  /\ UNCHANGED <<Desk, Disk>>
  /\ UnmountTerm(c)
  /\ UNCHANGED <<Rest, Bar>>

\* reconnect(): the header button (status connected) or Retry (status error).
reconnect(c, w, h) ==
  /\ event' = Ev("reconnect", c)
  /\ UNCHANGED <<Desk, Disk>>
  /\ life[c] = "mounted" /\ kind[c] = "terminal"
  /\ term[c].status \in {"connected", "error"}
  /\ disconnect(c, "connect", TRUE, props[c].server, w, h)
  /\ UNCHANGED <<life, kind, props, fb, Rest, Bar>>

\* watch(() => props.server?.id): the prop changes to server s (0: none).
TermWatch(c, s, w, h) ==
  /\ event' = Ev("watch", c)
  /\ UNCHANGED <<Desk, Disk>>
  /\ life[c] = "mounted" /\ kind[c] = "terminal"
  /\ s # props[c].server
  /\ props' = [props EXCEPT ![c] = [server |-> s]]
  /\ disconnect(c, IF s # 0 THEN "connect" ELSE "none", TRUE, s, w, h)
  /\ UNCHANGED <<life, kind, fb, Rest, Bar>>

\* disconnect() that keeps the id after await sshDisconnect(sessionId).
DisconnectResumeKeepsId(c, f, w, h) ==
  /\ event' = Ev("response", c)
  /\ UNCHANGED <<Desk, Disk>>
  /\ kind[c] = "terminal"
  /\ f.pc = "disc_done"
  /\ afterDisconnect(c, f, f.next, term[c], life[c] = "mounted", props[c].server, w, h)
  /\ hist' = [hist EXCEPT ![f.sid].done = TRUE]
  /\ UNCHANGED <<life, kind, props, fb, sessions, nextSid, wire, nKeys, Bar>>

\* disconnect() resumes after await sshDisconnect(sessionId).
DisconnectResume(c, f, w, h) ==
  /\ event' = Ev("response", c)
  /\ UNCHANGED <<Desk, Disk>>
  /\ kind[c] = "terminal"
  /\ f.pc = "disc_done"
  /\ afterDisconnect(c, f, f.next, [term[c] EXCEPT !.sessionId = 0],
                     life[c] = "mounted", props[c].server, w, h)
  /\ hist' = [hist EXCEPT ![f.sid].done = TRUE]
  /\ UNCHANGED <<life, kind, props, fb, sessions, nextSid, wire, nKeys, Bar>>

\* disconnect() is left by the exception of await sshDisconnect(sessionId):
\* nothing below the await runs, and the caller (reconnect, the watcher,
\* onUnmounted) does not go on.
DisconnectThrows(c, f) ==
  /\ event' = Ev("response", c)
  /\ UNCHANGED <<Desk, Disk>>
  /\ kind[c] = "terminal"
  /\ f.pc = "disc_err"
  /\ flows' = [flows EXCEPT ![c] = Step(@, f, Idle)]
  /\ UNCHANGED <<life, kind, props, term, fb, listeners, Rest, Bar>>

\* connect() whose catch block tries again.
ConnectResumeRetry(c, f) ==
  /\ event' = Ev("response", c)
  /\ UNCHANGED <<Desk, Disk>>
  /\ kind[c] = "terminal"
  /\ f.pc = "conn_done"
  /\ f.sid = 0
  /\ term' = [term EXCEPT ![c].status = "error", ![c].errorMessage = "ConnectionError"]
  /\ flows' = [flows EXCEPT ![c] = Step(@, f, [f EXCEPT !.pc = "conn_sent"])]
  /\ UNCHANGED <<life, kind, props, fb, listeners, Rest, Bar>>

\* connect() resumes after await sshConnect(...): the id is stored and the
\* listener is requested, or the catch block runs.
ConnectResume(c, f) ==
  /\ event' = Ev("response", c)
  /\ UNCHANGED <<Desk, Disk>>
  /\ kind[c] = "terminal"
  /\ f.pc = "conn_done"
  /\ IF f.sid = 0
     THEN /\ term' = [term EXCEPT ![c].status = "error",
                                  ![c].errorMessage = "ConnectionError"]
          /\ flows' = [flows EXCEPT ![c] = Step(@, f, Idle)]
          /\ hist' = hist
     ELSE /\ term' = [term EXCEPT ![c].sessionId = f.sid]
          /\ flows' = [flows EXCEPT ![c] = Step(@, f, [f EXCEPT !.pc = "listen_sent"])]
          /\ hist' = [hist EXCEPT ![f.sid].returned = TRUE,
                                  ![f.sid].cols = f.cols, ![f.sid].rows = f.rows]
  /\ UNCHANGED <<life, kind, props, fb, sessions, nextSid, listeners, wire, nKeys, Bar>>

\* connect() from the return of onSshData to its end (lines 78-115).
afterListen(t, mounted, sid) ==
  LET t1 == [t EXCEPT !.unlistenData = sid] IN
  IF ~t1.terminal
  THEN [t1 EXCEPT !.status = "error", !.errorMessage = "TypeError"]
  ELSE LET t2 == [t1 EXCEPT !.handlers = @ + 1,
                            !.leakedObserver = @ \/ t1.resizeObserver,
                            !.resizeObserver = TRUE]
       IN IF ~mounted
          THEN [t2 EXCEPT !.status = "error", !.errorMessage = "TypeError"]
          ELSE [t2 EXCEPT !.lastCols = t2.cols, !.lastRows = t2.rows,
                          !.status = "connected"]

ListenResume(c, f) ==
  /\ event' = Ev("response", c)
  /\ UNCHANGED <<Desk, Disk>>
  /\ kind[c] = "terminal"
  /\ f.pc = "listen_done"
  /\ term' = [term EXCEPT ![c] = afterListen(term[c], life[c] = "mounted", f.sid)]
  /\ flows' = [flows EXCEPT ![c] = Step(@, f, Idle)]
  /\ UNCHANGED <<life, kind, props, fb, listeners, Rest, Bar>>

\* The ResizeObserver callback for a container of size (w, h); visible is
\* whether getBoundingClientRect() has a non-zero width and height.
ResizeCallback(t, mounted, w, h, visible) ==
  IF t.fitAddon /\ t.terminal /\ t.sessionId # 0 /\ mounted /\ visible
  THEN LET t1 == [t EXCEPT !.cols = w, !.rows = h] IN
       IF t1.cols # t1.lastCols \/ t1.rows # t1.lastRows
       THEN [t |-> [t1 EXCEPT !.lastCols = t1.cols, !.lastRows = t1.rows], send |-> TRUE]
       ELSE [t |-> t1, send |-> FALSE]
  ELSE [t |-> t, send |-> FALSE]

sshResize(sessionId, cols, rows) ==
  [op |-> "ssh_resize", sid |-> sessionId, data |-> <<>>, cols |-> cols, rows |-> rows]

sshWrite(sessionId, data) ==
  [op |-> "ssh_write", sid |-> sessionId, data |-> data, cols |-> 0, rows |-> 0]

ResizeEvent(c, w, h, visible) ==
  /\ event' = Ev("resize", c)
  /\ UNCHANGED <<Desk, Disk>>
  /\ kind[c] = "terminal"
  /\ term[c].resizeObserver \/ term[c].leakedObserver
  /\ Len(wire) < MaxWire
  /\ LET r == ResizeCallback(term[c], life[c] = "mounted", w, h, visible) IN
     /\ term' = [term EXCEPT ![c] = r.t]
     /\ wire' = IF r.send
                THEN Append(wire, sshResize(r.t.sessionId, r.t.cols, r.t.rows))
                ELSE wire
     /\ hist' = IF r.send
                THEN [hist EXCEPT ![r.t.sessionId].cols = r.t.cols,
                                  ![r.t.sessionId].rows = r.t.rows]
                ELSE hist
  /\ UNCHANGED <<life, kind, props, fb, flows, sessions, nextSid, listeners, nKeys, Bar>>

\* The terminal.onData handler for typed data k: the requests it issues.
onData(t, k) ==
  IF t.sessionId # 0 THEN <<sshWrite(t.sessionId, encode(k))>> ELSE <<>>

\* The handler's request overtakes the requests issued before it.
KeyInputReordered(c, k) ==
  /\ event' = Ev("key", c)
  /\ UNCHANGED <<Desk, Disk>>
  /\ life[c] = "mounted" /\ kind[c] = "terminal"
  /\ term[c].terminal /\ term[c].handlers > 0
  /\ nKeys < MaxKeys
  /\ LET reqs == Flatten([i \in 1..term[c].handlers |-> onData(term[c], k)]) IN
     /\ Len(wire) + Len(reqs) <= MaxWire
     /\ wire' = reqs \o wire
  /\ hist' = IF term[c].sessionId = 0 THEN hist
             ELSE [hist EXCEPT ![term[c].sessionId].issued =
                     @ \o [i \in 1..term[c].handlers |-> encode(k)]]
  /\ nKeys' = nKeys + 1
  /\ UNCHANGED <<life, kind, props, term, fb, flows, sessions, nextSid, listeners, Bar>>

\* Every handler registered on the terminal runs for the keystroke.
KeyInput(c, k) ==
  /\ event' = Ev("key", c)
  /\ UNCHANGED <<Desk, Disk>>
  /\ life[c] = "mounted" /\ kind[c] = "terminal"
  /\ term[c].terminal /\ term[c].handlers > 0
  /\ nKeys < MaxKeys
  /\ LET reqs == Flatten([i \in 1..term[c].handlers |-> onData(term[c], k)]) IN
     /\ Len(wire) + Len(reqs) <= MaxWire
     /\ wire' = wire \o reqs
     /\ hist' = IF term[c].sessionId = 0 THEN hist
                ELSE [hist EXCEPT ![term[c].sessionId].issued =
                        @ \o [i \in 1..term[c].handlers |-> encode(k)]]
  /\ nKeys' = nKeys + 1
  /\ UNCHANGED <<life, kind, props, term, fb, flows, sessions, nextSid, listeners, Bar>>

\* ---------------------------------------------- FileBrowser.vue handlers

\* connect(), from its entry to the sftp_connect request.
fbConnect(b, server) ==
  IF server = 0 THEN [b |-> b, fl |-> Idle]
  ELSE [b |-> [b EXCEPT !.status = "connecting", !.errorMessage = ""],
        fl |-> [Idle EXCEPT !.pc = "sftp_conn_sent"]]

\* loadDirectory(path), from its entry to the sftp_list_dir request.
loadDirectory(b, path) ==
  IF b.sessionId = 0 THEN [b |-> b, fl |-> Idle]
  ELSE [b |-> [b EXCEPT !.loading = TRUE],
        fl |-> [Idle EXCEPT !.pc = "list_sent", !.sid = b.sessionId, !.path = path]]

\* The rest of invocation f once disconnect() is past its await.
fbAfterDisconnect(c, f, next, b, server) ==
  LET r == IF next = "connect" THEN fbConnect(b, server) ELSE [b |-> b, fl |-> Idle]
  IN /\ (f.pc = "idle" /\ r.fl.pc # "idle") => FreeFlow(c)
     /\ fb' = [fb EXCEPT ![c] = r.b]
     /\ flows' = [flows EXCEPT ![c] = Step(@, f, r.fl)]

\* disconnect() followed by what the caller does next.
fbDisconnect(c, next, server) ==
  IF fb[c].sessionId # 0
  THEN /\ FreeFlow(c)
       /\ flows' = [flows EXCEPT ![c] = Step(@, Idle,
                      [Idle EXCEPT !.pc = "sftp_disc_sent", !.sid = fb[c].sessionId,
                                   !.next = next])]
       /\ UNCHANGED fb
  ELSE fbAfterDisconnect(c, Idle, next, fb[c], server)

\* A FileBrowser with server s is created and mounted: onMounted.
MountFb(c, s) ==
  /\ life[c] = "free"
  /\ life' = [life EXCEPT ![c] = "mounted"]
  /\ kind' = [kind EXCEPT ![c] = "sftp"]
  /\ props' = [props EXCEPT ![c] = [server |-> s]]
  /\ LET r == fbConnect(InitFb, s)
     IN /\ fb' = [fb EXCEPT ![c] = r.b]
        /\ flows' = [flows EXCEPT ![c] = Step(@, Idle, r.fl)]
  /\ UNCHANGED <<term, listeners>>

\* The FileBrowser is unmounted: onUnmounted.
UnmountFb(c) ==
  /\ life[c] = "mounted" /\ kind[c] = "sftp"
  /\ life' = [life EXCEPT ![c] = "unmounted"]
  /\ fbDisconnect(c, "none", props[c].server)
  /\ UNCHANGED <<kind, props, term, listeners>>

FbMount(c, s) ==
  /\ event' = Ev("mount", c)
  /\ UNCHANGED <<Desk, Disk>>
  /\ MountFb(c, s)
  /\ UNCHANGED <<Rest, Bar>>

FbUnmount(c) ==
  /\ event' = Ev("unmount", c)
  /\ UNCHANGED <<Desk, Disk>>
  /\ UnmountFb(c)
  /\ UNCHANGED <<Rest, Bar>>

\* The Retry button of the error view calls connect().
FbRetry(c) ==
  /\ event' = Ev("retry", c)
  /\ UNCHANGED <<Desk, Disk>>
  /\ life[c] = "mounted" /\ kind[c] = "sftp"
  /\ fb[c].status = "error"
  /\ fbAfterDisconnect(c, Idle, "connect", fb[c], props[c].server)
  /\ UNCHANGED <<life, kind, props, term, listeners, Rest, Bar>>

\* watch(() => props.server?.id).
FbWatch(c, s) ==
  /\ event' = Ev("watch", c)
  /\ UNCHANGED <<Desk, Disk>>
  /\ life[c] = "mounted" /\ kind[c] = "sftp"
  /\ s # props[c].server
  /\ props' = [props EXCEPT ![c] = [server |-> s]]
  /\ fbDisconnect(c, IF s # 0 THEN "connect" ELSE "none", s)
  /\ UNCHANGED <<life, kind, term, listeners, Rest, Bar>>

\* disconnect() resumes after await sftpDisconnect(sessionId).
FbDisconnectResume(c, f) ==
  /\ event' = Ev("response", c)
  /\ UNCHANGED <<Desk, Disk>>
  /\ kind[c] = "sftp"
  /\ f.pc = "sftp_disc_done"
  /\ fbAfterDisconnect(c, f, f.next, [fb[c] EXCEPT !.sessionId = 0], props[c].server)
  /\ hist' = [hist EXCEPT ![f.sid].done = TRUE]
  /\ UNCHANGED <<life, kind, props, term, listeners, sessions, nextSid, wire, nKeys, Bar>>

\* connect() with an empty catch block.
FbConnectResumeSilent(c, f) ==
  /\ event' = Ev("response", c)
  /\ UNCHANGED <<Desk, Disk>>
  /\ kind[c] = "sftp"
  /\ f.pc = "sftp_conn_done"
  /\ IF f.sid = 0
     THEN /\ fb' = fb
          /\ flows' = [flows EXCEPT ![c] = Step(@, f, Idle)]
          /\ hist' = hist
     ELSE LET r == loadDirectory([fb[c] EXCEPT !.sessionId = f.sid,
                                               !.status = "connected"], "/")
          IN /\ fb' = [fb EXCEPT ![c] = r.b]
             /\ flows' = [flows EXCEPT ![c] = Step(@, f, r.fl)]
             /\ hist' = [hist EXCEPT ![f.sid].returned = TRUE]
  /\ UNCHANGED <<life, kind, props, term, listeners, sessions, nextSid, wire, nKeys, Bar>>

\* connect() resumes after await sftpConnect(...) and calls loadDirectory("/"),
\* or its catch block runs.
FbConnectResume(c, f) ==
  /\ event' = Ev("response", c)
  /\ UNCHANGED <<Desk, Disk>>
  /\ kind[c] = "sftp"
  /\ f.pc = "sftp_conn_done"
  /\ IF f.sid = 0
     THEN /\ fb' = [fb EXCEPT ![c].status = "error",
                              ![c].errorMessage = "ConnectionError"]
          /\ flows' = [flows EXCEPT ![c] = Step(@, f, Idle)]
          /\ hist' = hist
     ELSE LET r == loadDirectory([fb[c] EXCEPT !.sessionId = f.sid,
                                               !.status = "connected"], "/")
          IN /\ fb' = [fb EXCEPT ![c] = r.b]
             /\ flows' = [flows EXCEPT ![c] = Step(@, f, r.fl)]
             /\ hist' = [hist EXCEPT ![f.sid].returned = TRUE]
  /\ UNCHANGED <<life, kind, props, term, listeners, sessions, nextSid, wire, nKeys, Bar>>

\* loadDirectory() resumes after await sftpListDir(...): the listing is
\* shown, or the error is alerted; finally loading is reset.
\* loadDirectory assigning the path before it knows the outcome.
afterListEager(b, f) ==
  IF f.pc = "list_ok"
  THEN [b EXCEPT !.files = f.list, !.currentPath = f.path,
                 !.selectedFile = 0, !.loading = FALSE]
  ELSE [b EXCEPT !.currentPath = f.path, !.alert = "sftp.loadFailed",
                 !.loading = FALSE]

afterList(b, f) ==
  IF f.pc = "list_ok"
  THEN [b EXCEPT !.files = f.list, !.currentPath = f.path,
                 !.selectedFile = 0, !.loading = FALSE]
  ELSE [b EXCEPT !.alert = "sftp.loadFailed", !.loading = FALSE]

\* The finally block of the handler op that has awaited refresh().
finish(b, op) ==
  CASE op = "delete" -> [b EXCEPT !.deleteTarget = <<>>]
    [] op = "write" -> [b EXCEPT !.editorLoading = FALSE]
    [] op = "upload" -> [b EXCEPT !.uploading = FALSE]
    [] OTHER -> b

FbListResume(c, f) ==
  /\ event' = Ev("response", c)
  /\ UNCHANGED <<Desk, Disk>>
  /\ kind[c] = "sftp"
  /\ f.pc \in {"list_ok", "list_err"}
  /\ fb' = [fb EXCEPT ![c] = finish(afterList(fb[c], f), f.next)]
  /\ flows' = [flows EXCEPT ![c] = Step(@, f, Idle)]
  /\ UNCHANGED <<life, kind, props, term, listeners, Rest, Bar>>

\* ------------------------------------ FileBrowser.vue: files and folders

\* All of Desk but the count of user operations.
Office == <<store, nextPid, backup, settings, sform, slist, calls, out>>

\* What a step of a FileBrowser on its own state leaves alone.
FbFrame == UNCHANGED <<Office, Disk, life, kind, props, term, listeners, Rest, Bar>>

\* The toolbar and the file list can be clicked: the browser is shown
\* (status neither 'connecting' nor 'error') with no overlay above it.
Toolbar(c) ==
  /\ life[c] = "mounted" /\ kind[c] = "sftp"
  /\ fb[c].status = "connected"
  /\ ~fb[c].showEditor /\ ~fb[c].showDeleteConfirm /\ ~fb[c].showInputModal
  /\ ~fb[c].uploading

\* Component c goes on with state r.b and invocation old replaced by r.fl.
FbRun(c, old, r) ==
  /\ (old.pc = "idle" /\ r.fl.pc # "idle") => FreeFlow(c)
  /\ fb' = [fb EXCEPT ![c] = r.b]
  /\ flows' = [flows EXCEPT ![c] = Step(@, old, r.fl)]

\* A request of the session of b.
Request(b, pc, path) == [Idle EXCEPT !.pc = pc, !.sid = b.sessionId, !.path = path]

\* refresh(), to the request of loadDirectory.
refresh(b) == loadDirectory(b, b.currentPath)

thenNoRefresh(b, op) == [b |-> finish(b, op), fl |-> Idle]

\* await refresh() inside handler op: the handler ends with its finally block
\* after the listing, at once when loadDirectory returns early.
thenRefresh(b, op) ==
  LET r == refresh(b)
  IN IF r.fl.pc = "idle" THEN [b |-> finish(r.b, op), fl |-> Idle]
     ELSE [b |-> r.b, fl |-> [r.fl EXCEPT !.next = op]]

FbNavigateTo(c, path) ==
  /\ Toolbar(c) /\ path \in pathParts(fb[c].currentPath)
  /\ event' = Ev("navigateTo", c)
  /\ FbRun(c, Idle, loadDirectory(fb[c], path))
  /\ FbFrame

\* openItem(file) for the i-th entry of the list (double click); the click
\* selects it.
FbOpenItem(c, i) ==
  /\ Toolbar(c) /\ i \in 1..Len(fb[c].files)
  /\ event' = Ev("openItem", c)
  /\ IF fb[c].files[i].is_dir
     THEN FbRun(c, Idle, loadDirectory([fb[c] EXCEPT !.selectedFile = i],
                                       fb[c].files[i].path))
     ELSE FbRun(c, Idle, [b |-> [fb[c] EXCEPT !.selectedFile = i], fl |-> Idle])
  /\ FbFrame

\* goUp(); the button is disabled in the root.
FbGoUp(c) ==
  /\ Toolbar(c) /\ fb[c].currentPath # "/"
  /\ event' = Ev("goUp", c)
  /\ FbRun(c, Idle, loadDirectory(fb[c], Parent(fb[c].currentPath)))
  /\ FbFrame

FbRefresh(c) ==
  /\ Toolbar(c)
  /\ event' = Ev("refresh", c)
  /\ FbRun(c, Idle, refresh(fb[c]))
  /\ FbFrame

\* openNewFolderModal(), openNewFileModal() and, for the i-th entry,
\* openRenameModal(file).
FbOpenInputModal(c, type, i) ==
  /\ Toolbar(c)
  /\ type \in {"newFolder", "newFile", "rename"}
  /\ IF type = "rename" THEN i \in 1..Len(fb[c].files) ELSE i = 0
  /\ event' = Ev("openInputModal", c)
  /\ fb' = [fb EXCEPT ![c].inputModalType = type,
              ![c].inputModalValue = IF i = 0 THEN "" ELSE fb[c].files[i].name,
              ![c].inputModalTarget = IF i = 0 THEN <<>> ELSE <<fb[c].files[i]>>,
              ![c].showInputModal = TRUE]
  /\ UNCHANGED flows
  /\ FbFrame

\* v-model="inputModalValue".
FbTypeInput(c, v) ==
  /\ life[c] = "mounted" /\ kind[c] = "sftp" /\ fb[c].showInputModal
  /\ event' = Ev("typeInput", c)
  /\ fb' = [fb EXCEPT ![c].inputModalValue = v]
  /\ UNCHANGED flows
  /\ FbFrame

FbCloseInputModal(c) ==
  /\ life[c] = "mounted" /\ kind[c] = "sftp" /\ fb[c].showInputModal
  /\ event' = Ev("closeInputModal", c)
  /\ fb' = [fb EXCEPT ![c].showInputModal = FALSE, ![c].inputModalValue = "",
                      ![c].inputModalTarget = <<>>]
  /\ UNCHANGED flows
  /\ FbFrame

\* doCreateFolder() and doCreateFile(), to their requests.
doCreate(b, pc) ==
  LET name == trim(b.inputModalValue)
  IN IF name = "" THEN [b |-> b, fl |-> Idle]
     ELSE [b |-> [b EXCEPT !.showInputModal = FALSE],
           fl |-> Request(b, pc, Join(b.currentPath, name))]

doCreateFolder(b) == doCreate(b, "mkdir_sent")

doCreateFile(b) == doCreate(b, "create_sent")

\* doRename(), to its request.
doRename(b) ==
  LET newName == trim(b.inputModalValue)
      file == b.inputModalTarget
  IN IF newName = "" \/ file = <<>> \/ newName = file[1].name
     THEN [b |-> [b EXCEPT !.showInputModal = FALSE], fl |-> Idle]
     ELSE [b |-> [b EXCEPT !.showInputModal = FALSE],
           fl |-> [Request(b, "rename_sent", file[1].path)
                     EXCEPT !.to = Join(IF DirOf(file[1].path) = "" THEN "/"
                                        ELSE DirOf(file[1].path), newName)]]

\* submitInputModal(): the confirm button and the enter key of the modal.
FbSubmitInputModal(c) ==
  /\ life[c] = "mounted" /\ kind[c] = "sftp" /\ fb[c].showInputModal
  /\ event' = Ev("submitInputModal", c)
  /\ FbRun(c, Idle, CASE fb[c].inputModalType = "rename" -> doRename(fb[c])
                      [] fb[c].inputModalType = "newFile" -> doCreateFile(fb[c])
                      [] fb[c].inputModalType = "newFolder" -> doCreateFolder(fb[c])
                      [] OTHER -> [b |-> fb[c], fl |-> Idle])
  /\ FbFrame

\* confirmDelete(file) for the i-th entry of the list.
FbConfirmDelete(c, i) ==
  /\ Toolbar(c) /\ i \in 1..Len(fb[c].files)
  /\ event' = Ev("confirmDelete", c)
  /\ fb' = [fb EXCEPT ![c].deleteTarget = <<fb[c].files[i]>>,
                      ![c].showDeleteConfirm = TRUE]
  /\ UNCHANGED flows
  /\ FbFrame

FbCancelDelete(c) ==
  /\ life[c] = "mounted" /\ kind[c] = "sftp" /\ fb[c].showDeleteConfirm
  /\ event' = Ev("cancelDelete", c)
  /\ fb' = [fb EXCEPT ![c].deleteTarget = <<>>, ![c].showDeleteConfirm = FALSE]
  /\ UNCHANGED flows
  /\ FbFrame

\* doDelete(), to its request.
FbDoDelete(c) ==
  /\ life[c] = "mounted" /\ kind[c] = "sftp" /\ fb[c].showDeleteConfirm
  /\ event' = Ev("doDelete", c)
  /\ IF fb[c].deleteTarget = <<>>
     THEN UNCHANGED <<fb, flows>>
     ELSE FbRun(c, Idle, [b |-> [fb[c] EXCEPT !.showDeleteConfirm = FALSE],
                          fl |-> Request(fb[c], "delete_sent",
                                         fb[c].deleteTarget[1].path)])
  /\ FbFrame

\* editFile(file) for the i-th entry of the list, to its request.
FbEditFile(c, i) ==
  /\ Toolbar(c) /\ i \in 1..Len(fb[c].files)
  /\ ~fb[c].files[i].is_dir
  /\ event' = Ev("editFile", c)
  /\ FbRun(c, Idle, [b |-> [fb[c] EXCEPT !.editorFile = fb[c].files[i].path,
                                         !.editorLoading = TRUE,
                                         !.showEditor = TRUE],
                     fl |-> Request(fb[c], "read_sent", fb[c].files[i].path)])
  /\ FbFrame

\* v-model="editorContent": the textarea is rendered when nothing is loading.
FbTypeEditor(c, text) ==
  /\ life[c] = "mounted" /\ kind[c] = "sftp"
  /\ fb[c].showEditor /\ ~fb[c].editorLoading
  /\ event' = Ev("typeEditor", c)
  /\ fb' = [fb EXCEPT ![c].editorContent = text]
  /\ UNCHANGED flows
  /\ FbFrame

\* useApi.js: sftpWriteFile(sessionId, path, contents).
sftpWriteFile(b, path, contents) ==
  [Request(b, "write_sent", path) EXCEPT !.data = ArrayFrom(contents)]

\* saveFile(), to its request; the button is disabled while loading.
FbSaveFile(c) ==
  /\ life[c] = "mounted" /\ kind[c] = "sftp"
  /\ fb[c].showEditor /\ ~fb[c].editorLoading
  /\ event' = Ev("saveFile", c)
  /\ IF fb[c].editorFile = ""
     THEN UNCHANGED <<fb, flows>>
     ELSE FbRun(c, Idle, [b |-> [fb[c] EXCEPT !.editorLoading = TRUE],
                          fl |-> sftpWriteFile(fb[c], fb[c].editorFile,
                                               encodeText(fb[c].editorContent))])
  /\ FbFrame

FbCloseEditor(c) ==
  /\ life[c] = "mounted" /\ kind[c] = "sftp" /\ fb[c].showEditor
  /\ event' = Ev("closeEditor", c)
  /\ fb' = [fb EXCEPT ![c].showEditor = FALSE, ![c].editorFile = "",
                      ![c].editorContent = <<>>, ![c].contentFrom = ""]
  /\ UNCHANGED flows
  /\ FbFrame

\* uploadFile(), to the file dialog.
FbUploadFile(c) ==
  /\ Toolbar(c)
  /\ event' = Ev("uploadFile", c)
  /\ FbRun(c, Idle, [b |-> fb[c], fl |-> [Idle EXCEPT !.pc = "open_sent"]])
  /\ FbFrame

\* doUpload(localPath) for the local file "b", to its request.
doUpload(b) ==
  [b |-> [b EXCEPT !.uploading = TRUE],
   fl |-> Request(b, "upload_sent", Join(b.currentPath, "b"))]

\* uploadFile() resumes with the path the user picked, if any.
FbUploadPicked(c, f, picked) ==
  /\ kind[c] = "sftp" /\ f.pc = "open_sent"
  /\ event' = Ev("response", c)
  /\ FbRun(c, f, IF picked THEN doUpload(fb[c]) ELSE [b |-> fb[c], fl |-> Idle])
  /\ FbFrame

\* onDrop(e) with one file.
FbDrop(c) ==
  /\ life[c] = "mounted" /\ kind[c] = "sftp"
  /\ fb[c].status = "connected"
  /\ event' = Ev("drop", c)
  /\ IF fb[c].sessionId = 0
     THEN UNCHANGED <<fb, flows>>
     ELSE FbRun(c, Idle, doUpload(fb[c]))
  /\ FbFrame

\* editFile() resumes after await sftpReadFile(...).
FbReadResume(c, f) ==
  /\ kind[c] = "sftp" /\ f.pc \in {"read_ok", "read_err"}
  /\ event' = Ev("response", c)
  /\ FbRun(c, f, [b |-> IF f.pc = "read_ok"
                        THEN [fb[c] EXCEPT !.editorContent = decode(Uint8Array(f.data)),
                                           !.contentFrom = f.path,
                                           !.editorLoading = FALSE]
                        ELSE [fb[c] EXCEPT !.showEditor = FALSE,
                                           !.editorLoading = FALSE],
                  fl |-> Idle])
  /\ FbFrame

\* The handler a request belongs to.
OpOf(pc) ==
  CASE pc \in {"delete_ok", "delete_err"} -> "delete"
    [] pc \in {"write_ok", "write_err"} -> "write"
    [] pc \in {"upload_ok", "upload_err"} -> "upload"
    [] OTHER -> "none"

Succeeded == {"mkdir_ok", "create_ok", "delete_ok", "rename_ok", "write_ok", "upload_ok"}

Failed == {"mkdir_err", "create_err", "delete_err", "rename_err", "write_err",
           "upload_err"}

\* doCreateFolder, doCreateFile, doDelete, doRename, saveFile and doUpload
\* resume after their request: await refresh() (saveFile hides the editor
\* first), or the alert of the catch block and the finally block.
FbMutateResume(c, f) ==
  /\ kind[c] = "sftp" /\ f.pc \in Succeeded \cup Failed
  /\ event' = Ev("response", c)
  /\ IF f.pc \in Succeeded
     THEN FbRun(c, f, thenRefresh(IF f.pc = "write_ok"
                                  THEN [fb[c] EXCEPT !.showEditor = FALSE]
                                  ELSE fb[c], OpOf(f.pc)))
     ELSE FbRun(c, f, [b |-> finish(fb[c], OpOf(f.pc)), fl |-> Idle])
  /\ FbFrame

\* The SFTP session serving a file request: ok is FALSE when the remote
\* refuses it. Only the paths of Paths can hold something.
BackendSftp(c, f, ok) ==
  /\ f.pc \in {"read_sent", "write_sent", "mkdir_sent", "create_sent", "delete_sent",
               "rename_sent", "upload_sent"}
  /\ event' = Ev("registry", c)
  /\ LET live == ok /\ f.sid # 0 /\ sessions[f.sid].live
         here == f.path \in Paths
         done(good, pc, new) ==
           /\ flows' = [flows EXCEPT ![c] = Step(@, f, IF good THEN pc ELSE
                          [f EXCEPT !.pc = CASE f.pc = "read_sent" -> "read_err"
                                        [] f.pc = "write_sent" -> "write_err"
                                        [] f.pc = "mkdir_sent" -> "mkdir_err"
                                        [] f.pc = "create_sent" -> "create_err"
                                        [] f.pc = "delete_sent" -> "delete_err"
                                        [] f.pc = "rename_sent" -> "rename_err"
                                        [] OTHER -> "upload_err"])]
           /\ fs' = IF good THEN new ELSE fs
           /\ lastWrite' = IF good /\ f.pc = "write_sent"
                           THEN [lastWrite EXCEPT ![f.path] = <<f.data>>]
                           ELSE lastWrite
     IN CASE f.pc = "read_sent" ->
               LET good == live /\ here /\ Len(fs[f.path]) = 1
               IN done(good, [f EXCEPT !.pc = "read_ok",
                                       !.data = IF good THEN fs[f.path][1] ELSE <<>>], fs)
          [] f.pc = "write_sent" ->
               done(live /\ here /\ fs[f.path] # Folder, [f EXCEPT !.pc = "write_ok"],
                    IF here THEN [fs EXCEPT ![f.path] = <<f.data>>] ELSE fs)
          [] f.pc = "mkdir_sent" ->
               done(live /\ here /\ fs[f.path] = <<>>, [f EXCEPT !.pc = "mkdir_ok"],
                    IF here THEN [fs EXCEPT ![f.path] = Folder] ELSE fs)
          [] f.pc = "create_sent" ->
               done(live /\ here /\ fs[f.path] = <<>>, [f EXCEPT !.pc = "create_ok"],
                    IF here THEN [fs EXCEPT ![f.path] = << <<>> >>] ELSE fs)
          [] f.pc = "delete_sent" ->
               done(live /\ here /\ fs[f.path] # <<>>, [f EXCEPT !.pc = "delete_ok"],
                    IF here THEN [fs EXCEPT ![f.path] = <<>>] ELSE fs)
          [] f.pc = "rename_sent" ->
               done(live /\ here /\ fs[f.path] # <<>> /\ f.to \in Paths,
                    [f EXCEPT !.pc = "rename_ok"],
                    IF here /\ f.to \in Paths
                    THEN [[fs EXCEPT ![f.path] = <<>>] EXCEPT ![f.to] = fs[f.path]]
                    ELSE fs)
          [] OTHER ->
               done(live /\ here /\ fs[f.path] # Folder, [f EXCEPT !.pc = "upload_ok"],
                    IF here THEN [fs EXCEPT ![f.path] = <<LocalBytes>>] ELSE fs)
  /\ UNCHANGED <<Office, life, kind, props, term, fb, listeners, Rest, Bar>>

\* ------------------------------------------------------- App.vue (tabs)

\* The lowest component slot not yet used.
FreeComp == CHOOSE c \in Comps : life[c] = "free" /\ \A d \in Comps : life[d] = "free" => c <= d

\* tabs.value.find(t => t.type === type && t.server.id === server.id): its
\* index, 0 when there is none.
find(type, server) ==
  IF \E i \in 1..Len(tabs) : tabs[i].type = type /\ tabs[i].server = server
  THEN CHOOSE i \in 1..Len(tabs) :
         /\ tabs[i].type = type /\ tabs[i].server = server
         /\ \A j \in 1..(i - 1) : ~(tabs[j].type = type /\ tabs[j].server = server)
  ELSE 0

\* tabs.value.splice(index, 1), index counted from 1.
splice(ts, index) == [i \in 1..(Len(ts) - 1) |-> IF i < index THEN ts[i] ELSE ts[i + 1]]

Max(a, b) == IF a >= b THEN a ELSE b

\* openTerminal(server): the existing tab is activated, or a new tab is
\* pushed and activated and its Terminal mounts.
openTerminal(server, w, h) ==
  LET existing == find("terminal", server) IN
  IF existing # 0
  THEN /\ event' = Ev("select", tabs[existing].comp)
       /\ UNCHANGED <<Desk, Disk>>
       /\ activeTab' = tabs[existing].comp
       /\ UNCHANGED <<life, kind, props, term, fb, flows, listeners, tabs, Rest>>
  ELSE /\ \E c \in Comps : life[c] = "free"
       /\ event' = Ev("mount", FreeComp)
       /\ UNCHANGED <<Desk, Disk>>
       /\ tabs' = Append(tabs, [type |-> "terminal", server |-> server, comp |-> FreeComp])
       /\ activeTab' = FreeComp
       /\ MountTerm(FreeComp, server, w, h)
       /\ UNCHANGED Rest

\* openSftp(server).
openSftp(server) ==
  LET existing == find("sftp", server) IN
  IF existing # 0
  THEN /\ event' = Ev("select", tabs[existing].comp)
       /\ UNCHANGED <<Desk, Disk>>
       /\ activeTab' = tabs[existing].comp
       /\ UNCHANGED <<life, kind, props, term, fb, flows, listeners, tabs, Rest>>
  ELSE /\ \E c \in Comps : life[c] = "free"
       /\ event' = Ev("mount", FreeComp)
       /\ UNCHANGED <<Desk, Disk>>
       /\ tabs' = Append(tabs, [type |-> "sftp", server |-> server, comp |-> FreeComp])
       /\ activeTab' = FreeComp
       /\ MountFb(FreeComp, server)
       /\ UNCHANGED Rest

\* closeTab(tab) that unmounts the component of the tab that becomes active.
closeTabOther(index) ==
  /\ index \in 1..Len(tabs)
  /\ LET tab == tabs[index]
         rest == splice(tabs, index)
         other == IF rest = <<>> THEN tab ELSE rest[Max(1, index - 1)]
     IN /\ event' = Ev("unmount", tab.comp)
        /\ UNCHANGED <<Desk, Disk>>
        /\ tabs' = rest
        /\ activeTab' = IF rest = <<>> THEN 0 ELSE other.comp
        /\ IF other.type = "terminal" THEN UnmountTerm(other.comp) ELSE UnmountFb(other.comp)
  /\ UNCHANGED Rest

\* closeTab(tab) that leaves activeTab as it is.
closeTabKeep(index) ==
  /\ index \in 1..Len(tabs)
  /\ LET tab == tabs[index]
     IN /\ event' = Ev("unmount", tab.comp)
        /\ UNCHANGED <<Desk, Disk>>
        /\ tabs' = splice(tabs, index)
        /\ UNCHANGED activeTab
        /\ IF tab.type = "terminal" THEN UnmountTerm(tab.comp) ELSE UnmountFb(tab.comp)
  /\ UNCHANGED Rest

\* closeTab(tab) for the tab at index: the tab is removed, the tab before it
\* (or the first) becomes active when it was the active one, and its
\* component is unmounted.
closeTab(index) ==
  /\ index \in 1..Len(tabs)
  /\ LET tab == tabs[index]
         rest == splice(tabs, index)
     IN /\ event' = Ev("unmount", tab.comp)
        /\ UNCHANGED <<Desk, Disk>>
        /\ tabs' = rest
        /\ activeTab' = IF activeTab = tab.comp
                        THEN IF rest = <<>> THEN 0 ELSE rest[Max(1, index - 1)].comp
                        ELSE activeTab
        /\ IF tab.type = "terminal" THEN UnmountTerm(tab.comp) ELSE UnmountFb(tab.comp)
  /\ UNCHANGED Rest

\* @click="activeTab = tab" on the tab at index.
selectTab(index) ==
  /\ index \in 1..Len(tabs)
  /\ event' = Ev("select", tabs[index].comp)
  /\ UNCHANGED <<Desk, Disk>>
  /\ activeTab' = tabs[index].comp
  /\ UNCHANGED <<life, kind, props, term, fb, flows, listeners, tabs, Rest>>

\* --------------------------------------------------- the session registry

\* ssh_connect / sftp_connect: a session is opened under a fresh id, or the
\* attempt fails (id 0 stands for the rejected call).
Connect(c, f, ok, sent, done, knd) ==
  /\ f.pc = sent
  /\ IF ok
     THEN /\ nextSid <= MaxSessions
          /\ sessions' = [sessions EXCEPT ![nextSid] =
                            [NoSession EXCEPT !.live = TRUE, !.kind = knd,
                                              !.cols = f.cols, !.rows = f.rows]]
          /\ nextSid' = nextSid + 1
          /\ hist' = [hist EXCEPT ![nextSid].owner = c]
          /\ flows' = [flows EXCEPT ![c] = Step(@, f, [f EXCEPT !.pc = done, !.sid = nextSid])]
     ELSE /\ flows' = [flows EXCEPT ![c] = Step(@, f, [f EXCEPT !.pc = done, !.sid = 0])]
          /\ UNCHANGED <<sessions, nextSid, hist>>
  /\ UNCHANGED <<life, kind, props, term, fb, listeners, wire, nKeys, Bar>>

BackendConnect(c, f, ok) ==
  /\ event' = Ev("registry", c)
  /\ UNCHANGED <<Desk, Disk>>
  /\ Connect(c, f, ok, "conn_sent", "conn_done", "ssh")

BackendSftpConnect(c, f, ok) ==
  /\ event' = Ev("registry", c)
  /\ UNCHANGED <<Desk, Disk>>
  /\ Connect(c, f, ok, "sftp_conn_sent", "sftp_conn_done", "sftp")

\* listen("ssh-data-<id>"): the listener is registered.
BackendListen(c, f) ==
  /\ event' = Ev("registry", c)
  /\ UNCHANGED <<Desk, Disk>>
  /\ f.pc = "listen_sent"
  /\ listeners' = listeners \cup {[sid |-> f.sid, c |-> c]}
  /\ flows' = [flows EXCEPT ![c] = Step(@, f, [f EXCEPT !.pc = "listen_done"])]
  /\ UNCHANGED <<life, kind, props, term, fb, Rest, Bar>>

\* ssh_disconnect / sftp_disconnect: the session is closed after the requests
\* queued for it; a closed or unknown id is a no-op.
Disconnect(c, f, sent, done) ==
  /\ f.pc = sent
  /\ \A i \in 1..Len(wire) : wire[i].sid # f.sid
  /\ sessions' = [sessions EXCEPT ![f.sid].live = FALSE]
  /\ flows' = [flows EXCEPT ![c] = Step(@, f, [f EXCEPT !.pc = done])]
  /\ UNCHANGED <<life, kind, props, term, fb, nextSid, listeners, wire, hist, nKeys, Bar>>

BackendDisconnect(c, f) ==
  /\ event' = Ev("registry", c)
  /\ UNCHANGED <<Desk, Disk>>
  /\ Disconnect(c, f, "disc_sent", "disc_done")

\* The ssh_disconnect request is rejected: nothing is closed.
BackendDisconnectRejects(c, f) ==
  /\ event' = Ev("registry", c)
  /\ UNCHANGED <<Desk, Disk>>
  /\ f.pc = "disc_sent"
  /\ flows' = [flows EXCEPT ![c] = Step(@, f, [f EXCEPT !.pc = "disc_err"])]
  /\ UNCHANGED <<life, kind, props, term, fb, listeners, Rest, Bar>>

BackendSftpDisconnect(c, f) ==
  /\ event' = Ev("registry", c)
  /\ UNCHANGED <<Desk, Disk>>
  /\ Disconnect(c, f, "sftp_disc_sent", "sftp_disc_done")

\* sftp_list_dir: the listing, or an error when the session is not live or
\* the path is no directory.
BackendListDir(c, f) ==
  /\ event' = Ev("registry", c)
  /\ UNCHANGED <<Desk, Disk>>
  /\ f.pc = "list_sent"
  /\ flows' = [flows EXCEPT ![c] = Step(@, f,
                 IF sessions[f.sid].live /\ IsDir(f.path, fs)
                 THEN [f EXCEPT !.pc = "list_ok", !.list = ListDir(f.path, fs)]
                 ELSE [f EXCEPT !.pc = "list_err"])]
  /\ UNCHANGED <<life, kind, props, term, fb, listeners, Rest, Bar>>

\* One ssh_write / ssh_resize applied to the sessions.
Apply(ss, r) ==
  IF ~ss[r.sid].live THEN ss
  ELSE IF r.op = "ssh_write" THEN [ss EXCEPT ![r.sid].stdin = @ \o r.data]
  ELSE [ss EXCEPT ![r.sid].cols = r.cols, ![r.sid].rows = r.rows]

\* Request i is the oldest one queued for its session.
FirstOfSession(i) == \A j \in 1..(i - 1) : wire[j].sid # wire[i].sid

\* The registry applies a queued request: sessions run concurrently, each
\* one serialises its own requests.
BackendProcess(i) ==
  /\ event' = Ev("registry", 0)
  /\ UNCHANGED <<Desk, Disk>>
  /\ i \in 1..Len(wire)
  /\ FirstOfSession(i)
  /\ sessions' = Apply(sessions, wire[i])
  /\ wire' = splice(wire, i)
  /\ UNCHANGED <<life, kind, props, term, fb, flows, nextSid, listeners, hist, nKeys, Bar>>

\* The remote shell of session sid produces a chunk: the event reaches the
\* listener registered for the id, whose callback writes it to the terminal.
RemoteData(sid) ==
  /\ event' = Ev("remote", 0)
  /\ UNCHANGED <<Desk, Disk>>
  /\ sessions[sid].live /\ sessions[sid].kind = "ssh"
  /\ sessions[sid].out < MaxChunks
  /\ sessions' = [sessions EXCEPT ![sid].out = @ + 1]
  /\ LET data == Chunk(sessions[sid].out + 1)
         delivered == \E l \in listeners : l.sid = sid /\ term[l.c].terminal
     IN hist' = [hist EXCEPT
                   ![sid].expected = IF hist[sid].returned THEN @ \o data ELSE @,
                   ![sid].written = IF delivered THEN @ \o Uint8Array(data) ELSE @]
  /\ UNCHANGED <<life, kind, props, term, fb, flows, nextSid, listeners, wire, nKeys, Bar>>

\* The listeners the webview calls for an event of session sid ("data",
\* "closed", "errored"): the front end subscribes to one event name,
\* ssh-data-<id>.
Subscribed(name, sid) ==
  IF name = "data" THEN {l \in listeners : l.sid = sid} ELSE {}

\* The remote end of session sid goes away: a graceful close (how "closed")
\* or a failure of the read loop (how "errored"). The session is no longer
\* live and its terminal event is emitted to the listeners subscribed to it,
\* whose components would leave 'connected'.
RemoteClose(sid, how) ==
  /\ event' = Ev("remoteClose", 0)
  /\ UNCHANGED <<Desk, Disk>>
  /\ sessions[sid].live
  /\ sessions' = [sessions EXCEPT ![sid].live = FALSE, ![sid].ended = how]
  /\ term' = [c \in Comps |->
               IF \E l \in Subscribed(how, sid) : l.c = c
               THEN [term[c] EXCEPT !.status = "error"]
               ELSE term[c]]
  /\ UNCHANGED <<life, kind, props, fb, flows, nextSid, listeners, wire, hist, nKeys, Bar>>

\* ------------------------------------- Settings.vue and the backup calls

\* useApi.js: exportServers(password), the export_servers request.
exportServers(password) == [Call("settings", "export_sent") EXCEPT !.pw = password]

\* importServers sending one password whatever was typed.
importServersFixed(encryptedData, password) ==
  [Call("settings", "import_sent") EXCEPT !.data = encryptedData,
                                          !.pw = <<97, 98, 99, 100>>]

\* useApi.js: importServers(encryptedData, password), the import_servers request.
importServers(encryptedData, password) ==
  [Call("settings", "import_sent") EXCEPT !.data = encryptedData, !.pw = password]

\* ServerList.vue: loadServers(), from its entry to the get_servers request.
loadServers(l) == [l EXCEPT !.loading = TRUE]

\* App.vue: @settings="showSettings = true".
openSettings ==
  /\ ~settings.visible
  /\ event' = Ev("settings", 0)
  /\ settings' = [settings EXCEPT !.visible = TRUE]
  /\ out' = {}
  /\ UNCHANGED <<store, nextPid, backup, sform, slist, calls, Work, Disk>>

\* App.vue: @close="showSettings = false".
closeSettings ==
  /\ settings.visible
  /\ event' = Ev("settings", 0)
  /\ settings' = [settings EXCEPT !.visible = FALSE]
  /\ out' = {"emit:close"}
  /\ UNCHANGED <<store, nextPid, backup, sform, slist, calls, Work, Disk>>

startExport ==
  /\ settings.visible /\ ~settings.showPasswordModal
  /\ event' = Ev("startExport", 0)
  /\ settings' = [settings EXCEPT !.passwordModalMode = "export", !.password = <<>>,
                                  !.confirmPassword = <<>>, !.showPasswordModal = TRUE]
  /\ out' = {}
  /\ UNCHANGED <<store, nextPid, backup, sform, slist, calls, Work, Disk>>

\* startImport(), to the file dialog.
startImport ==
  /\ settings.visible /\ ~settings.showPasswordModal
  /\ FreeCall
  /\ event' = Ev("startImport", 0)
  /\ calls' = calls (+) SetToBag({Call("settings", "pick_sent")})
  /\ out' = {}
  /\ UNCHANGED <<store, nextPid, backup, settings, sform, slist, Work, Disk>>

\* startImport() resumes with the file the user picked and its text: data is
\* <<>> when the dialog was cancelled, ok is FALSE when the read failed.
PickResume(f, data, ok) ==
  /\ f \in PendingCalls /\ f.pc = "pick_sent"
  /\ event' = Ev("picked", 0)
  /\ calls' = Step(calls, f, NoCall)
  /\ IF ~ok
     THEN /\ out' = {"alert:importFailed"}
          /\ UNCHANGED settings
     ELSE IF data = <<>>
     THEN /\ out' = {}
          /\ UNCHANGED settings
     ELSE /\ out' = {}
          /\ settings' = [settings EXCEPT !.importData = data,
                            !.passwordModalMode = "import", !.password = <<>>,
                            !.showPasswordModal = TRUE]
  /\ UNCHANGED <<store, nextPid, backup, sform, slist, Work, Disk>>

\* v-model="password" and v-model="confirmPassword" (the latter is only
\* rendered in export mode).
TypePassword(p, q) ==
  /\ settings.visible /\ settings.showPasswordModal
  /\ event' = Ev("type", 0)
  /\ settings' = [settings EXCEPT !.password = p,
                    !.confirmPassword = IF settings.passwordModalMode = "export"
                                        THEN q ELSE @]
  /\ out' = {}
  /\ UNCHANGED <<store, nextPid, backup, sform, slist, calls, Work, Disk>>

\* handlePasswordSubmit() without the check of the length in export mode.
handlePasswordSubmitAnyLength ==
  /\ settings.visible /\ settings.showPasswordModal /\ ~settings.loading
  /\ event' = Ev("passwordSubmit", 0)
  /\ IF settings.passwordModalMode = "export"
     THEN IF settings.password # settings.confirmPassword
          THEN /\ out' = {"alert:passwordMismatch"}
               /\ UNCHANGED <<settings, calls>>
          ELSE /\ FreeCall
               /\ settings' = [settings EXCEPT !.loading = TRUE]
               /\ calls' = calls (+) SetToBag({[exportServers(settings.password)
                                                 EXCEPT !.typed = settings.password]})
               /\ out' = {}
     ELSE IF Len(settings.password) < 1
          THEN /\ out' = {"alert:enterPassword"}
               /\ UNCHANGED <<settings, calls>>
          ELSE /\ FreeCall
               /\ settings' = [settings EXCEPT !.loading = TRUE]
               /\ calls' = calls (+) SetToBag({[importServers(settings.importData,
                                                              settings.password)
                                                 EXCEPT !.typed = settings.password]})
               /\ out' = {}
  /\ UNCHANGED <<store, nextPid, backup, sform, slist, Work, Disk>>

\* handlePasswordSubmit(), to its request; the button is disabled while
\* loading.
handlePasswordSubmit ==
  /\ settings.visible /\ settings.showPasswordModal /\ ~settings.loading
  /\ event' = Ev("passwordSubmit", 0)
  /\ IF settings.passwordModalMode = "export"
     THEN IF settings.password # settings.confirmPassword
          THEN /\ out' = {"alert:passwordMismatch"}
               /\ UNCHANGED <<settings, calls>>
          ELSE IF Len(settings.password) < 4
          THEN /\ out' = {"alert:passwordTooShort"}
               /\ UNCHANGED <<settings, calls>>
          ELSE /\ FreeCall
               /\ settings' = [settings EXCEPT !.loading = TRUE]
               /\ calls' = calls (+) SetToBag({[exportServers(settings.password)
                                                 EXCEPT !.typed = settings.password]})
               /\ out' = {}
     ELSE IF Len(settings.password) < 1
          THEN /\ out' = {"alert:enterPassword"}
               /\ UNCHANGED <<settings, calls>>
          ELSE /\ FreeCall
               /\ settings' = [settings EXCEPT !.loading = TRUE]
               /\ calls' = calls (+) SetToBag({[importServers(settings.importData,
                                                              settings.password)
                                                 EXCEPT !.typed = settings.password]})
               /\ out' = {}
  /\ UNCHANGED <<store, nextPid, backup, sform, slist, Work, Disk>>

\* The finally blocks of handlePasswordSubmit().
exportFinally(s) == [s EXCEPT !.loading = FALSE, !.showPasswordModal = FALSE]

importFinally(s) ==
  [s EXCEPT !.loading = FALSE, !.showPasswordModal = FALSE, !.importData = <<>>]

\* The export branch resumes with the blob: on to the save dialog.
ExportResume(f) ==
  /\ f \in PendingCalls /\ f.pc = "export_done"
  /\ event' = Ev("exported", 0)
  /\ IF f.ok
     THEN /\ calls' = Step(calls, f, [f EXCEPT !.pc = "save_sent"])
          /\ out' = {}
          /\ UNCHANGED settings
     ELSE /\ calls' = Step(calls, f, NoCall)
          /\ out' = {"alert:exportFailed"}
          /\ settings' = exportFinally(settings)
  /\ UNCHANGED <<store, nextPid, backup, sform, slist, Work, Disk>>

\* The export branch resumes with the path the user chose (chosen) and the
\* outcome of writeTextFile (wrote).
SaveResume(f, chosen, wrote) ==
  /\ f \in PendingCalls /\ f.pc = "save_sent"
  /\ event' = Ev("saved", 0)
  /\ calls' = Step(calls, f, NoCall)
  /\ settings' = exportFinally(settings)
  /\ IF chosen /\ wrote
     THEN /\ backup' = [backup EXCEPT !.file = f.data]
          /\ out' = {"alert:exportSuccess"}
     ELSE /\ out' = IF chosen THEN {"alert:exportFailed"} ELSE {}
          /\ UNCHANGED backup
  /\ UNCHANGED <<store, nextPid, sform, slist, Work, Disk>>

\* ImportResume refreshing the list whatever the outcome.
ImportResumeRefreshes(f) ==
  /\ f \in PendingCalls /\ f.pc = "import_done"
  /\ event' = Ev("imported", 0)
  /\ settings' = importFinally(settings)
  /\ out' = {IF f.ok THEN "alert:importSuccess" ELSE "alert:importFailed",
             "emit:refresh"}
  /\ slist' = loadServers(slist)
  /\ calls' = Step(calls, f, Call("list", "servers_sent"))
  /\ UNCHANGED <<store, nextPid, backup, sform, Work, Disk>>

\* The import branch resumes with the count or the error.
ImportResume(f) ==
  /\ f \in PendingCalls /\ f.pc = "import_done"
  /\ event' = Ev("imported", 0)
  /\ settings' = importFinally(settings)
  /\ IF f.ok
     THEN /\ out' = {"alert:importSuccess", "emit:refresh"}
          /\ slist' = loadServers(slist)
          /\ calls' = Step(calls, f, Call("list", "servers_sent"))
     ELSE /\ out' = {"alert:importFailed"}
          /\ calls' = Step(calls, f, NoCall)
          /\ UNCHANGED slist
  /\ UNCHANGED <<store, nextPid, backup, sform, Work, Disk>>

closePasswordModal ==
  /\ settings.visible /\ settings.showPasswordModal
  /\ event' = Ev("closePasswordModal", 0)
  /\ settings' = [settings EXCEPT !.showPasswordModal = FALSE, !.password = <<>>,
                                  !.confirmPassword = <<>>, !.importData = <<>>]
  /\ out' = {}
  /\ UNCHANGED <<store, nextPid, backup, sform, slist, calls, Work, Disk>>

\* ServerList.vue: loadServers() resumes with the summaries.
ListResume(f) ==
  /\ f \in PendingCalls /\ f.who = "list" /\ f.pc = "servers_done"
  /\ event' = Ev("listed", 0)
  /\ calls' = Step(calls, f, NoCall)
  /\ slist' = [slist EXCEPT !.loading = FALSE,
                            !.servers = IF f.ok THEN f.ids ELSE @]
  /\ out' = {}
  /\ UNCHANGED <<store, nextPid, backup, settings, sform, Work, Disk>>

\* ------------------------------------------------- the credential store

\* export_servers: a blob under a fresh salt, or an error.
BackendExport(f, ok) ==
  /\ f \in PendingCalls /\ f.pc = "export_sent"
  /\ event' = Ev("export_servers", 0)
  /\ out' = {}
  /\ IF ok
     THEN /\ backup.salts < MaxExports
          /\ backup' = [backup EXCEPT !.salts = @ + 1]
          /\ calls' = Step(calls, f, [f EXCEPT !.pc = "export_done",
                              !.data = <<Blob(backup.salts + 1, f.pw, store, f.typed)>>])
     ELSE /\ calls' = Step(calls, f, [f EXCEPT !.pc = "export_done", !.ok = FALSE])
          /\ UNCHANGED backup
  /\ UNCHANGED <<store, nextPid, settings, sform, slist, Work, Disk>>

\* The profiles of src added to st under fresh ids, from next on.
RECURSIVE Merge(_, _, _)
Merge(st, src, next) ==
  IF Stored(src) = {} THEN st
  ELSE LET p == CHOOSE q \in Stored(src) : \A r \in Stored(src) : q <= r
       IN Merge([st EXCEPT ![next] = <<[src[p][1] EXCEPT !.id = next]>>],
                [src EXCEPT ![p] = <<>>], next + 1)

\* Whether password opens blob data (<<>>: no data at all).
Decrypts(data, password) ==
  /\ data # <<>>
  /\ data[1].intact
  /\ data[1].key = password

\* import_servers: the count of the merged profiles, or CryptoError with the
\* store as it was.
BackendImport(f) ==
  /\ f \in PendingCalls /\ f.pc = "import_sent"
  /\ event' = Ev("import_servers", 0)
  /\ out' = {}
  /\ IF Decrypts(f.data, f.pw)
     THEN LET n == Cardinality(Stored(f.data[1].data))
          IN /\ nextPid + n - 1 <= MaxProfiles
             /\ store' = Merge(store, f.data[1].data, nextPid)
             /\ nextPid' = nextPid + n
             /\ calls' = Step(calls, f, [f EXCEPT !.pc = "import_done", !.n = n])
     ELSE /\ calls' = Step(calls, f, [f EXCEPT !.pc = "import_done", !.ok = FALSE])
          /\ UNCHANGED <<store, nextPid>>
  /\ UNCHANGED <<backup, settings, sform, slist, Work, Disk>>

\* get_servers: the summaries of the stored profiles, or an error.
BackendGetServers(f, ok) ==
  /\ f \in PendingCalls /\ f.pc = "servers_sent"
  /\ event' = Ev("get_servers", 0)
  /\ out' = {}
  /\ calls' = Step(calls, f, [f EXCEPT !.pc = "servers_done", !.ok = ok,
                                       !.ids = IF ok THEN Stored(store) ELSE {}])
  /\ UNCHANGED <<store, nextPid, backup, settings, sform, slist, Work, Disk>>

\* ------------------------------- ServerForm.vue, ServerList.vue, App.vue

\* x || d of JavaScript for text and for numbers.
OrText(x, d) == IF x = "" THEN d ELSE x

OrNumber(x, d) == IF x = 0 THEN d ELSE x

\* fromServer dropping the passphrase of the key.
fromServerNoPassphrase(server) ==
  LET key == server.auth.type = "PrivateKey"
      proxy == server.proxy
  IN [id |-> server.id, name |-> server.name, host |-> server.host,
      port |-> server.port, username |-> server.username,
      auth_type |-> IF key THEN "key" ELSE "password",
      password |-> IF server.auth.type = "Password" THEN server.auth.value ELSE "",
      private_key |-> IF key THEN server.auth.key ELSE "",
      passphrase |-> "",
      proxy_enabled |-> proxy # <<>>,
      proxy_type |-> IF proxy # <<>> THEN OrText(proxy[1].proxy_type, "socks5")
                     ELSE "socks5",
      proxy_host |-> IF proxy # <<>> THEN OrText(proxy[1].host, "") ELSE "",
      proxy_port |-> IF proxy # <<>> THEN OrNumber(proxy[1].port, 1080) ELSE 1080,
      proxy_username |-> IF proxy # <<>> THEN OrText(proxy[1].username, "") ELSE "",
      proxy_password |-> IF proxy # <<>> THEN OrText(proxy[1].password, "") ELSE "",
      jump_host |-> OrText(server.jump_host, ""),
      notes |-> OrText(server.notes, "")]

\* The form the serverId watcher builds from the profile get_server returned.
fromServer(server) ==
  LET key == server.auth.type = "PrivateKey"
      proxy == server.proxy
  IN [id |-> server.id, name |-> server.name, host |-> server.host,
      port |-> server.port, username |-> server.username,
      auth_type |-> IF key THEN "key" ELSE "password",
      password |-> IF server.auth.type = "Password" THEN server.auth.value ELSE "",
      private_key |-> IF key THEN server.auth.key ELSE "",
      passphrase |-> IF key THEN OrText(server.auth.passphrase, "") ELSE "",
      proxy_enabled |-> proxy # <<>>,
      proxy_type |-> IF proxy # <<>> THEN OrText(proxy[1].proxy_type, "socks5")
                     ELSE "socks5",
      proxy_host |-> IF proxy # <<>> THEN OrText(proxy[1].host, "") ELSE "",
      proxy_port |-> IF proxy # <<>> THEN OrNumber(proxy[1].port, 1080) ELSE 1080,
      proxy_username |-> IF proxy # <<>> THEN OrText(proxy[1].username, "") ELSE "",
      proxy_password |-> IF proxy # <<>> THEN OrText(proxy[1].password, "") ELSE "",
      jump_host |-> OrText(server.jump_host, ""),
      notes |-> OrText(server.notes, "")]

\* useApi.js: saveServer(serverData), the save_server request; prop records
\* the serverId prop of the form at the request.
saveServer(serverData) ==
  [Call("form", "save_sent") EXCEPT !.form = <<serverData>>, !.prop = sform.serverId]

\* The serverId watcher of ServerForm.vue, from its entry to get_servers.
watchServerId(id) == [Call("form", "servers_sent") EXCEPT !.id = id]

\* App.vue: handleAddServer (id 0) and handleEditServer (the id of a listed
\* server), with the watchers of the form that the new props trigger: the
\* serverId watcher when the id changed, then the visible watcher.
openForm(id) ==
  /\ ~sform.visible
  /\ id # sform.serverId => FreeCall
  /\ event' = Ev(IF id = 0 THEN "add" ELSE "edit", 0)
  /\ calls' = IF id # sform.serverId
              THEN calls (+) SetToBag({watchServerId(id)}) ELSE calls
  /\ sform' = [sform EXCEPT !.serverId = id, !.visible = TRUE,
                            !.form = IF id = 0 THEN getDefaultForm ELSE @]
  /\ out' = {}
  /\ UNCHANGED <<store, nextPid, backup, settings, slist, Work, Disk>>

handleAddServer == openForm(0)

handleEditServer(id) ==
  /\ id \in slist.servers
  /\ openForm(id)

\* The close button of the form: @close="showForm = false".
closeForm ==
  /\ sform.visible
  /\ event' = Ev("closeForm", 0)
  /\ sform' = [sform EXCEPT !.visible = FALSE]
  /\ out' = {"emit:close"}
  /\ UNCHANGED <<store, nextPid, backup, settings, slist, calls, Work, Disk>>

\* The v-model fields of the form: the user types t (the id is no field).
TypeForm(t) ==
  /\ sform.visible
  /\ event' = Ev("type", 0)
  /\ sform' = [sform EXCEPT !.form = [t EXCEPT !.id = sform.form.id]]
  /\ out' = {}
  /\ UNCHANGED <<store, nextPid, backup, settings, slist, calls, Work, Disk>>

\* The serverId watcher resumes after loadServers().
WatchServersResume(f) ==
  /\ f \in PendingCalls /\ f.who = "form" /\ f.pc = "servers_done"
  /\ event' = Ev("watchServers", 0)
  /\ out' = {}
  /\ IF f.id # 0
     THEN /\ calls' = Step(calls, f, [Call("form", "get_sent") EXCEPT !.id = f.id])
          /\ sform' = [sform EXCEPT !.allServers = IF f.ok THEN f.ids ELSE @]
     ELSE /\ calls' = Step(calls, f, NoCall)
          /\ sform' = [sform EXCEPT !.allServers = IF f.ok THEN f.ids ELSE @,
                                    !.form = getDefaultForm]
  /\ UNCHANGED <<store, nextPid, backup, settings, slist, Work, Disk>>

\* The serverId watcher resumes after getServer(id).
WatchServerResume(f) ==
  /\ f \in PendingCalls /\ f.who = "form" /\ f.pc = "get_done"
  /\ event' = Ev("loaded", IF f.ok THEN f.id ELSE 0)
  /\ out' = {}
  /\ calls' = Step(calls, f, NoCall)
  /\ sform' = [sform EXCEPT !.form = IF f.ok THEN fromServer(f.form[1]) ELSE @]
  /\ UNCHANGED <<store, nextPid, backup, settings, slist, Work, Disk>>

\* handleSubmit without the check of the private key.
handleSubmitNoKeyCheck ==
  /\ sform.visible /\ ~sform.loading
  /\ event' = Ev("submit", 0)
  /\ LET form == sform.form
     IN IF form.name = "" \/ form.host = "" \/ form.username = ""
        THEN /\ out' = {"alert:required"}
             /\ UNCHANGED <<sform, calls>>
        ELSE IF form.auth_type = "password" /\ form.password = ""
        THEN /\ out' = {"alert:passwordRequired"}
             /\ UNCHANGED <<sform, calls>>
        ELSE /\ FreeCall
             /\ sform' = [sform EXCEPT !.loading = TRUE]
             /\ calls' = calls (+) SetToBag({saveServer(form)})
             /\ out' = {}
  /\ UNCHANGED <<store, nextPid, backup, settings, slist, Work, Disk>>

\* handleSubmit(), to the save_server request; the button is disabled while
\* loading.
handleSubmit ==
  /\ sform.visible /\ ~sform.loading
  /\ event' = Ev("submit", 0)
  /\ LET form == sform.form
     IN IF form.name = "" \/ form.host = "" \/ form.username = ""
        THEN /\ out' = {"alert:required"}
             /\ UNCHANGED <<sform, calls>>
        ELSE IF form.auth_type = "password" /\ form.password = ""
        THEN /\ out' = {"alert:passwordRequired"}
             /\ UNCHANGED <<sform, calls>>
        ELSE IF form.auth_type = "key" /\ form.private_key = ""
        THEN /\ out' = {"alert:privateKeyRequired"}
             /\ UNCHANGED <<sform, calls>>
        ELSE /\ FreeCall
             /\ sform' = [sform EXCEPT !.loading = TRUE]
             /\ calls' = calls (+) SetToBag({saveServer(form)})
             /\ out' = {}
  /\ UNCHANGED <<store, nextPid, backup, settings, slist, Work, Disk>>

\* handleSubmit() resumes: 'saved' makes App.vue reload the list
\* (handleServerSaved), 'close' hides the form.
SubmitResume(f) ==
  /\ f \in PendingCalls /\ f.pc = "save_done"
  /\ event' = Ev("submitted", 0)
  /\ IF f.ok
     THEN /\ out' = {"emit:saved", "emit:close"}
          /\ slist' = loadServers(slist)
          /\ calls' = Step(calls, f, Call("list", "servers_sent"))
          /\ sform' = [sform EXCEPT !.loading = FALSE, !.visible = FALSE]
     ELSE /\ out' = {"alert:saveFailed"}
          /\ calls' = Step(calls, f, NoCall)
          /\ sform' = [sform EXCEPT !.loading = FALSE]
          /\ UNCHANGED slist
  /\ UNCHANGED <<store, nextPid, backup, settings, Work, Disk>>

\* ServerList.vue: the delete button of a listed server.
confirmDelete(id) ==
  /\ id \in slist.servers
  /\ event' = Ev("confirmDelete", 0)
  /\ slist' = [slist EXCEPT !.deleteTarget = id, !.showDeleteConfirm = TRUE]
  /\ out' = {}
  /\ UNCHANGED <<store, nextPid, backup, settings, sform, calls, Work, Disk>>

cancelDelete ==
  /\ slist.showDeleteConfirm
  /\ event' = Ev("cancelDelete", 0)
  /\ slist' = [slist EXCEPT !.deleteTarget = 0, !.showDeleteConfirm = FALSE]
  /\ out' = {}
  /\ UNCHANGED <<store, nextPid, backup, settings, sform, calls, Work, Disk>>

\* doDelete(), to the delete_server request.
doDelete ==
  /\ slist.showDeleteConfirm
  /\ event' = Ev("doDelete", 0)
  /\ out' = {}
  /\ IF slist.deleteTarget = 0
     THEN UNCHANGED <<slist, calls>>
     ELSE /\ FreeCall
          /\ slist' = [slist EXCEPT !.showDeleteConfirm = FALSE]
          /\ calls' = calls (+) SetToBag({[Call("delete", "del_sent")
                                            EXCEPT !.id = slist.deleteTarget]})
  /\ UNCHANGED <<store, nextPid, backup, settings, sform, Work, Disk>>

\* doDelete() resumes after deleteServer: on to loadServers(), or the alert.
DeleteResume(f) ==
  /\ f \in PendingCalls /\ f.pc = "del_done"
  /\ event' = Ev("deleted", 0)
  /\ IF f.ok
     THEN /\ out' = {}
          /\ slist' = loadServers(slist)
          /\ calls' = Step(calls, f, Call("delete", "servers_sent"))
     ELSE /\ out' = {"alert:deleteFailed"}
          /\ slist' = [slist EXCEPT !.deleteTarget = 0]
          /\ calls' = Step(calls, f, NoCall)
  /\ UNCHANGED <<store, nextPid, backup, settings, sform, Work, Disk>>

\* doDelete() resumes after its loadServers().
DeleteListResume(f) ==
  /\ f \in PendingCalls /\ f.who = "delete" /\ f.pc = "servers_done"
  /\ event' = Ev("listed", 0)
  /\ calls' = Step(calls, f, NoCall)
  /\ slist' = [slist EXCEPT !.loading = FALSE, !.deleteTarget = 0,
                            !.servers = IF f.ok THEN f.ids ELSE @]
  /\ out' = {}
  /\ UNCHANGED <<store, nextPid, backup, settings, sform, Work, Disk>>

\* get_server: the full profile, or NotFoundError.
BackendGetServer(f) ==
  /\ f \in PendingCalls /\ f.pc = "get_sent"
  /\ event' = Ev("get_server", 0)
  /\ out' = {}
  /\ calls' = Step(calls, f, [f EXCEPT !.pc = "get_done", !.ok = store[f.id] # <<>>,
                                       !.form = store[f.id]])
  /\ UNCHANGED <<store, nextPid, backup, settings, sform, slist, Work, Disk>>

\* save_server: validates the required fields, assigns a fresh id when the
\* request has none, upserts by id; ok is FALSE when the store cannot persist.
BackendSave(f, ok) ==
  /\ f \in PendingCalls /\ f.pc = "save_sent"
  /\ event' = Ev("save_server", 0)
  /\ out' = {}
  /\ LET request == f.form[1]
         valid == request.name # "" /\ request.host # "" /\ request.username # ""
         id == IF request.id = 0 THEN nextPid ELSE request.id
     IN IF ok /\ valid
        THEN /\ id <= MaxProfiles
             /\ store' = [store EXCEPT ![id] = <<Profile(request, id)>>]
             /\ nextPid' = IF request.id = 0 THEN nextPid + 1 ELSE nextPid
             /\ calls' = Step(calls, f, [f EXCEPT !.pc = "save_done", !.id = id])
        ELSE /\ calls' = Step(calls, f, [f EXCEPT !.pc = "save_done", !.ok = FALSE])
             /\ UNCHANGED <<store, nextPid>>
  /\ UNCHANGED <<backup, settings, sform, slist, Work, Disk>>

\* delete_server: removes the profile, or NotFoundError.
BackendDelete(f) ==
  /\ f \in PendingCalls /\ f.pc = "del_sent"
  /\ event' = Ev("delete_server", 0)
  /\ out' = {}
  /\ calls' = Step(calls, f, [f EXCEPT !.pc = "del_done", !.ok = store[f.id] # <<>>])
  /\ store' = [store EXCEPT ![f.id] = <<>>]
  /\ UNCHANGED <<nextPid, backup, settings, sform, slist, Work, Disk>>

\* ------------------------------------------------------- specifications

\* The responses a Terminal resumes on, and the registry serving its calls.
TermCalls(c, CS, RS) ==
  \/ \E f \in Pending(c), w \in CS, h \in RS : DisconnectResume(c, f, w, h)
  \/ \E f \in Pending(c) : ConnectResume(c, f)
  \/ \E f \in Pending(c) : ListenResume(c, f)
  \/ \E f \in Pending(c), ok \in BOOLEAN : BackendConnect(c, f, ok)
  \/ \E f \in Pending(c) : BackendListen(c, f)
  \/ \E f \in Pending(c) : BackendDisconnect(c, f)

\* The same for a FileBrowser.
FbCalls(c) ==
  \/ \E f \in Pending(c) : FbDisconnectResume(c, f)
  \/ \E f \in Pending(c) : FbConnectResume(c, f)
  \/ \E f \in Pending(c) : FbListResume(c, f)
  \/ \E f \in Pending(c), ok \in BOOLEAN : BackendSftpConnect(c, f, ok)
  \/ \E f \in Pending(c) : BackendListDir(c, f)
  \/ \E f \in Pending(c) : BackendSftpDisconnect(c, f)

\* One Terminal on its own: mounted, used, unmounted.
Lifecycle(c, CS, RS) ==
  \/ \E w \in CS, h \in RS : TermMount(c, 1, w, h)
  \/ \E w \in CS, h \in RS : reconnect(c, w, h)
  \/ TermUnmount(c)
  \/ TermCalls(c, CS, RS)

\* No call of component c is in flight.
Quiet(c) == flows[c] = EmptyBag

\* The same with a user who waits for each operation to finish.
SerialLifecycle(c, CS, RS) ==
  \/ \E w \in CS, h \in RS : TermMount(c, 1, w, h)
  \/ \E w \in CS, h \in RS : Quiet(c) /\ reconnect(c, w, h)
  \/ Quiet(c) /\ TermUnmount(c)
  \/ TermCalls(c, CS, RS)

\* One FileBrowser on its own.
FbLifecycle(c) ==
  \/ FbMount(c, 1)
  \/ FbRetry(c)
  \/ FbUnmount(c)
  \/ FbCalls(c)

PropChange(c, CS, RS) ==
  \/ \E s \in {0, 1}, w \in CS, h \in RS : TermWatch(c, s, w, h)
  \/ \E s \in {0, 1} : FbWatch(c, s)

Layout(c, CS, RS) ==
  \E w \in CS, h \in RS, visible \in BOOLEAN : ResizeEvent(c, w, h, visible)

Typing(c) == \E k \in Keys : KeyInput(c, k)

Registry == \E i \in 1..MaxWire : BackendProcess(i)

Remote == \E sid \in Sids : RemoteData(sid)

\* A component of either kind, with prop changes.
Next ==
  \/ Lifecycle(1, {80}, Rows)
  \/ FbLifecycle(1)
  \/ PropChange(1, {80}, Rows)

Spec == Init /\ [][Next]_vars

\* A Terminal under layout changes.
NextResize ==
  \/ Lifecycle(1, Cols, Rows)
  \/ Layout(1, Cols, Rows)
  \/ Registry

SpecResize == Init /\ [][NextResize]_vars

\* A Terminal and the output of its remote shells.
NextData ==
  \/ Lifecycle(1, {80}, Rows)
  \/ Remote

SpecData == Init /\ [][NextData]_vars

\* A component of either kind whose calls are all answered, a connect call
\* at the latest when the attempt times out, and whose continuations all run.
NextAttempts ==
  \/ Lifecycle(1, {80}, {24})
  \/ FbLifecycle(1)

CallsAnswered ==
  /\ WF_vars(\E f \in Pending(1), ok \in BOOLEAN : BackendConnect(1, f, ok))
  /\ WF_vars(\E f \in Pending(1) : BackendListen(1, f))
  /\ WF_vars(\E f \in Pending(1) : BackendDisconnect(1, f))
  /\ WF_vars(\E f \in Pending(1), ok \in BOOLEAN : BackendSftpConnect(1, f, ok))
  /\ WF_vars(\E f \in Pending(1) : BackendListDir(1, f))
  /\ WF_vars(\E f \in Pending(1) : BackendSftpDisconnect(1, f))

CallsResumed ==
  /\ WF_vars(\E f \in Pending(1) : DisconnectResume(1, f, 80, 24))
  /\ WF_vars(\E f \in Pending(1) : ConnectResume(1, f))
  /\ WF_vars(\E f \in Pending(1) : ListenResume(1, f))
  /\ WF_vars(\E f \in Pending(1) : FbDisconnectResume(1, f))
  /\ WF_vars(\E f \in Pending(1) : FbConnectResume(1, f))
  /\ WF_vars(\E f \in Pending(1) : FbListResume(1, f))

SpecAttempts == Init /\ [][NextAttempts]_vars /\ CallsAnswered /\ CallsResumed

\* A Terminal whose ssh_disconnect requests may be rejected.
NextReject ==
  \/ Lifecycle(1, {80}, {24})
  \/ \E f \in Pending(1) : BackendDisconnectRejects(1, f)
  \/ \E f \in Pending(1) : DisconnectThrows(1, f)

SpecReject == Init /\ [][NextReject]_vars

\* A Terminal whose remote end may go away.
NextRemote ==
  \/ Lifecycle(1, {80}, Rows)
  \/ Remote
  \/ \E sid \in Sids, how \in {"closed", "errored"} : RemoteClose(sid, how)

SpecRemote == Init /\ [][NextRemote]_vars

\* A FileBrowser whose user walks the directories while the server may end
\* the session.
NextList ==
  \/ FbMount(1, 1)
  \/ FbUnmount(1)
  \/ FbCalls(1)
  \/ /\ ops < MaxOps /\ ops' = ops + 1
     /\ \/ \E path \in {"/", "/etc"} \cup Paths : FbNavigateTo(1, path)
        \/ \E i \in 1..3 : FbOpenItem(1, i)
        \/ FbGoUp(1)
        \/ FbRefresh(1)
  \/ \E sid \in Sids, how \in {"closed", "errored"} : RemoteClose(sid, how)

SpecList == Init /\ [][NextList]_vars

\* A Terminal under keyboard input.
NextKeys ==
  \/ SerialLifecycle(1, {80}, Rows)
  \/ Typing(1)
  \/ Registry

SpecKeys == Init /\ [][NextKeys]_vars

\* A Terminal in use: typing and layout changes.
NextUse ==
  \/ Lifecycle(1, {80}, Rows)
  \/ Typing(1)
  \/ Layout(1, Cols, Rows)
  \/ Registry

SpecUse == Init /\ [][NextUse]_vars

\* The tab bar of App.vue with its components.
NextTabs ==
  \/ \E s \in Servers : openTerminal(s, 80, 24)
  \/ \E s \in Servers : openSftp(s)
  \/ \E i \in 1..MaxComps : closeTab(i)
  \/ \E i \in 1..MaxComps : selectTab(i)
  \/ \E c \in Comps : TermCalls(c, {80}, {24})
  \/ \E c \in Comps : FbCalls(c)

SpecTabs == Init /\ [][NextTabs]_vars

\* The user of a FileBrowser: the input modal,
Naming(c, Types) ==
  \/ \E type \in Types, i \in 0..3 : FbOpenInputModal(c, type, i)
  \/ \E v \in Inputs : FbTypeInput(c, v)
  \/ FbCloseInputModal(c)
  \/ FbSubmitInputModal(c)

\* the editor,
Editing(c) ==
  \/ \E i \in 1..3 : FbEditFile(c, i)
  \/ \E text \in Texts : FbTypeEditor(c, text)
  \/ FbSaveFile(c)
  \/ FbCloseEditor(c)

\* the toolbar, the breadcrumbs and the file list.
Browsing(c) ==
  \/ \E path \in {"/", "/etc"} \cup Paths : FbNavigateTo(c, path)
  \/ \E i \in 1..3 : FbOpenItem(c, i)
  \/ FbGoUp(c)
  \/ FbRefresh(c)
  \/ \E i \in 1..3 : FbConfirmDelete(c, i)
  \/ FbCancelDelete(c)
  \/ FbDoDelete(c)
  \/ FbUploadFile(c)
  \/ FbDrop(c)

\* The responses to its file requests, and the SFTP session serving them.
FilesCalls(c) ==
  \/ \E f \in Pending(c) : FbReadResume(c, f)
  \/ \E f \in Pending(c) : FbMutateResume(c, f)
  \/ \E f \in Pending(c), ok \in BOOLEAN : BackendSftp(c, f, ok)

\* A FileBrowser in use.
NextFiles ==
  \/ FbMount(1, 1)
  \/ FbUnmount(1)
  \/ FbCalls(1)
  \/ /\ ops < MaxOps /\ ops' = ops + 1
     /\ (Naming(1, {"newFolder", "newFile", "rename"}) \/ Editing(1) \/ Browsing(1))
  \/ /\ UNCHANGED ops
     /\ \/ FilesCalls(1)
        \/ \E f \in Pending(1), picked \in BOOLEAN : FbUploadPicked(1, f, picked)

SpecFiles == Init /\ [][NextFiles]_vars

\* A FileBrowser whose user creates files and edits them.
NextEdit ==
  \/ FbMount(1, 1)
  \/ \E f \in Pending(1) : FbConnectResume(1, f)
  \/ \E f \in Pending(1) : FbListResume(1, f)
  \/ \E f \in Pending(1), ok \in BOOLEAN : BackendSftpConnect(1, f, ok)
  \/ \E f \in Pending(1) : BackendListDir(1, f)
  \/ /\ ops < MaxFileOps /\ ops' = ops + 1
     /\ (Naming(1, {"newFile"}) \/ Editing(1))
  \/ UNCHANGED ops /\ FilesCalls(1)

SpecEdit == Init /\ [][NextEdit]_vars

\* The user of Settings.vue.
SettingsUser ==
  /\ UNCHANGED ops
  /\ \/ openSettings
     \/ closeSettings
     \/ startExport
     \/ startImport
     \/ \E p \in Passwords : \E q \in {p, <<>>} : TypePassword(p, q)
     \/ handlePasswordSubmit
     \/ closePasswordModal

\* The files a user can pick for an import: the backup or some other file.
Picks == {<<>>, backup.file, <<Garbage>>}

\* The responses Settings.vue resumes on.
SettingsCalls ==
  /\ UNCHANGED ops
  /\ \/ \E f \in PendingCalls, data \in Picks, ok \in BOOLEAN : PickResume(f, data, ok)
     \/ \E f \in PendingCalls : ExportResume(f)
     \/ \E f \in PendingCalls, chosen \in BOOLEAN, wrote \in BOOLEAN :
          SaveResume(f, chosen, wrote)
     \/ \E f \in PendingCalls : ImportResume(f)

\* The store serving backups.
Backups ==
  /\ UNCHANGED ops
  /\ \/ \E f \in PendingCalls, ok \in BOOLEAN : BackendExport(f, ok)
     \/ \E f \in PendingCalls : BackendImport(f)

\* The listings of the store for ServerList.vue.
Listings ==
  /\ UNCHANGED ops
  /\ \/ \E f \in PendingCalls : f.who = "list" /\ BackendGetServers(f, TRUE)
     \/ \E f \in PendingCalls : ListResume(f)

\* Settings.vue: exports and imports of the store.
NextBackup ==
  \/ SettingsUser
  \/ SettingsCalls
  \/ Backups
  \/ Listings

SpecBackup == Init /\ [][NextBackup]_vars

\* What handleSubmit accepts.
Accepted(form) ==
  /\ form.name # "" /\ form.host # "" /\ form.username # ""
  /\ form.auth_type = "password" => form.password # ""
  /\ form.auth_type = "key" => form.private_key # ""

\* The user of ServerForm.vue, through App.vue, typing forms of TS.
FormUser(TS) ==
  /\ ops < MaxOps
  /\ ops' = ops + 1
  /\ \/ handleAddServer
     \/ \E id \in Pids : handleEditServer(id)
     \/ closeForm
     \/ \E t \in TS : TypeForm(t)
     \/ handleSubmit

\* The responses ServerForm.vue resumes on.
FormCalls ==
  /\ UNCHANGED ops
  /\ \/ \E f \in PendingCalls : WatchServersResume(f)
     \/ \E f \in PendingCalls : WatchServerResume(f)
     \/ \E f \in PendingCalls : SubmitResume(f)

\* The user of ServerList.vue deleting profiles.
ListUser ==
  /\ ops < MaxOps
  /\ ops' = ops + 1
  /\ \/ \E id \in Pids : confirmDelete(id)
     \/ cancelDelete
     \/ doDelete

\* The responses ServerList.vue resumes on.
ListCalls ==
  /\ UNCHANGED ops
  /\ \/ \E f \in PendingCalls : ListResume(f)
     \/ \E f \in PendingCalls : DeleteResume(f)
     \/ \E f \in PendingCalls : DeleteListResume(f)

\* The store serving the profile commands.
Profiles ==
  /\ UNCHANGED ops
  /\ \/ \E f \in PendingCalls : BackendGetServers(f, TRUE)
     \/ \E f \in PendingCalls : BackendGetServer(f)
     \/ \E f \in PendingCalls, ok \in BOOLEAN : BackendSave(f, ok)

\* Profiles added and edited, with all that can be typed.
NextForm ==
  \/ FormUser(Typed)
  \/ FormCalls
  \/ UNCHANGED ops /\ \E f \in PendingCalls : ListResume(f)
  \/ Profiles

SpecForm == Init /\ [][NextForm]_vars

\* Profiles added, edited and deleted, with forms that are accepted.
NextProfiles ==
  \/ FormUser({t \in Typed : Accepted(t) /\ t.auth_type = "key"})
  \/ FormCalls
  \/ ListUser
  \/ ListCalls
  \/ Profiles
  \/ UNCHANGED ops /\ \E f \in PendingCalls : BackendDelete(f)

SpecProfiles == Init /\ [][NextProfiles]_vars

\* ------------------------------------------------------------- claims

\* The state of component c, whichever its kind.
St(c) == IF kind[c] = "sftp" THEN fb[c] ELSE term[c]

\* Nothing is left of a session in component c.
Closed(c) ==
  IF kind[c] = "sftp" THEN fb[c].sessionId = 0
  ELSE /\ term[c].sessionId = 0 /\ term[c].unlistenData = 0
       /\ ~term[c].resizeObserver /\ ~term[c].terminal

\* The number of invocations of bag B that are at one of the places pcs.
Count(B, pcs) == BagCardinality([f \in {g \in BagToSet(B) : g.pc \in pcs} |-> B[f]])

\* The invocations new in B2 with respect to B1.
Added(B1, B2) == {f \in BagToSet(B2) : CopiesIn(f, B2) > CopiesIn(f, B1)}

\* The requests the step has issued.
NewRequests == {wire'[i] : i \in (Len(wire) + 1)..Len(wire')}

DiscSent == {"disc_sent", "sftp_disc_sent"}
ConnSent == {"conn_sent", "sftp_conn_sent"}

Sent == Len(wire') = Len(wire) + 1

\* C1: a size-change request (ssh_resize) is sent only when the terminal's
\* (cols, rows) differ from the last dimensions sent for that session, the
\* dimensions passed to ssh_connect counting as the first ones sent.
C1_ResizeOnlyOnChange ==
  [][(Sent /\ wire'[Len(wire')].op = "ssh_resize") =>
       LET r == wire'[Len(wire')]
       IN r.cols # hist[r.sid].cols \/ r.rows # hist[r.sid].rows]_vars

\* C2: disconnect() is idempotent. A handler that calls disconnect() while
\* the component holds no session id issues no ssh_disconnect /
\* sftp_disconnect request; and when nothing is left of a session (the state a
\* completed disconnect() leaves), a handler that only calls disconnect()
\* (onUnmounted, the watcher for a server prop that became null) raises no
\* error and leaves the component, its calls in flight, the listeners and the
\* registry unchanged.
C2_DisconnectIdempotent ==
  [][\A c \in Comps :
       (event'.c = c /\ event'.op \in {"unmount", "reconnect", "watch"}) =>
         /\ St(c).sessionId = 0 =>
              Count(flows'[c], DiscSent) <= Count(flows[c], DiscSent)
         /\ (/\ Closed(c)
             /\ event'.op = "unmount" \/ (event'.op = "watch" /\ props'[c].server = 0))
            => /\ term'[c] = term[c] /\ fb'[c] = fb[c] /\ flows'[c] = flows[c]
               /\ listeners' = listeners /\ Rest' = Rest]_vars

\* A Terminal whose server prop became null and whose disconnect() completed
\* has been unmounted: disconnect() ran once more, on nothing.
C2_Witness ==
  /\ event = Ev("unmount", 1) /\ kind[1] = "terminal"
  /\ props[1].server = 0
  /\ \E s \in Sids : hist[s].done
  /\ Closed(1) /\ flows[1] = EmptyBag

\* C3: what the subscriber has written to the terminal equals, byte for
\* byte, everything the remote produced for the session id since ssh_connect
\* returned it.
C3_GapFree == \A sid \in Sids : hist[sid].written = hist[sid].expected

\* The bytes of the ssh_write requests queued for session sid, in order.
Queued(sid) ==
  LET q == SelectSeq(wire, LAMBDA r : r.sid = sid /\ r.op = "ssh_write")
  IN Flatten([i \in 1..Len(q) |-> q[i].data])

C5_NoOrphanAfterFailedConnect ==
  \A c \in Comps :
    (kind[c] # "none" /\ St(c).status = "error") =>
      /\ St(c).errorMessage # ""
      /\ (St(c).sessionId # 0 /\ sessions[St(c).sessionId].live) =>
           \/ life[c] = "mounted"
           \/ \E f \in Pending(c) : f.pc \in DiscSent /\ f.sid = St(c).sessionId

\* C6: a session id whose disconnect() has completed is never used again and
\* every connect returns a new id: each write and resize issued, each listener
\* request and each disconnect request names an id that a connect has returned
\* and whose disconnect() has not completed; the id a connect returns has not
\* been returned before; the id the Terminal holds is never one whose
\* disconnect() has completed.
C6_ClosedIdNeverUsed ==
  [][/\ \A r \in NewRequests : hist[r.sid].returned /\ ~hist[r.sid].done
     /\ \A c \in Comps : \A f \in Added(flows[c], flows'[c]) :
          /\ f.pc \in {"listen_sent", "disc_sent"} =>
               hist'[f.sid].returned /\ ~hist[f.sid].done
          /\ (f.pc = "listen_sent" /\ hist'[f.sid].returned) => ~hist[f.sid].returned
     /\ \A c \in Comps :
          term'[c].sessionId # 0 => ~hist'[term'[c].sessionId].done]_vars

\* After a reconnect, a keystroke has been written to the new session.
C6_Witness ==
  \E s1, s2 \in Sids :
    /\ s1 # s2 /\ hist[s1].done /\ ~hist[s2].done
    /\ term[1].sessionId = s2 /\ term[1].status = "connected"
    /\ hist[s2].issued # <<>>

\* C7: a connect request (ssh_connect / sftp_connect) is issued only by a
\* handler of an explicit trigger (mount, the reconnect or Retry button, a
\* change of the server prop), or by such a handler resuming after the
\* disconnect() it awaited.
C7_NoAutomaticReconnect ==
  [][\A c \in Comps :
       Count(flows'[c], ConnSent) > Count(flows[c], ConnSent) =>
         \/ event'.op \in {"mount", "reconnect", "retry", "watch"}
         \/ /\ event'.op = "response"
            /\ \E f \in Pending(c) :
                 /\ f.pc \in {"disc_done", "sftp_disc_done"} /\ f.next = "connect"
                 /\ CopiesIn(f, flows'[c]) < CopiesIn(f, flows[c])]_vars

\* A connect attempt of a mounted Terminal has failed and nothing is in
\* flight: the Terminal stays in 'error'.
C7_Witness ==
  /\ life[1] = "mounted" /\ kind[1] = "terminal"
  /\ term[1].status = "error" /\ term[1].errorMessage = "ConnectionError"
  /\ event = Ev("response", 1) /\ flows[1] = EmptyBag

\* The listeners of component d.
ListenersOf(d) == {l \in listeners : l.c = d}

\* C8: a step of one tab's component (closeTab, a response, an error) leaves
\* the state, the calls in flight, the listeners and the sessions of every
\* other tab's component unchanged, and the disconnect requests it issues
\* name sessions that this component opened.
C8_TabsIndependent ==
  [][\A c \in Comps :
       event'.c = c =>
         /\ \A f \in Added(flows[c], flows'[c]) :
              f.pc \in DiscSent => hist[f.sid].owner = c
         /\ \A d \in Comps \ {c} :
              /\ term'[d] = term[d] /\ fb'[d] = fb[d] /\ flows'[d] = flows[d]
              /\ {l \in listeners' : l.c = d} = ListenersOf(d)
              /\ \A sid \in Sids :
                   hist[sid].owner = d => sessions'[sid] = sessions[sid]]_vars

\* A tab has been closed, its disconnect request is in flight, and the other
\* tab is connected to a live session.
C8_Witness ==
  \E c, d \in Comps :
    /\ c # d /\ event = Ev("unmount", c)
    /\ \E f \in Pending(c) : f.pc \in DiscSent
    /\ life[d] = "mounted" /\ St(d).status = "connected"
    /\ St(d).sessionId # 0 /\ sessions[St(d).sessionId].live

\* C9: once disconnect() has completed for a session id, no listener is
\* registered for that id's data event.
C9_NoListenerAfterDisconnect ==
  \A sid \in Sids : hist[sid].done => {l \in listeners : l.sid = sid} = {}

\* C10: at most one listener is registered per session id, and the session
\* id held by a Terminal whose status is 'connected' has exactly one.
C10_OneListenerPerSession ==
  /\ \A sid \in Sids : Cardinality({l \in listeners : l.sid = sid}) <= 1
  /\ \A c \in Comps :
       (kind[c] = "terminal" /\ term[c].status = "connected" /\ term[c].sessionId # 0)
         => Cardinality({l \in listeners : l.sid = term[c].sessionId}) = 1

\* The import_servers calls that have failed and not yet resumed.
FailedImports(B) == {f \in BagToSet(B) : f.pc = "import_done" /\ ~f.ok}

\* C11: a failed import (wrong password or corrupted blob) does not mutate
\* the store: the step in which import_servers fails leaves every profile and
\* the profile count as they were, and the step in which Settings.vue resumes
\* on the failure alerts the error and nothing else: no count is shown, no
\* refresh is emitted and no reload of the server list is requested.
C11_FailedImportKeepsStore ==
  [][/\ (event'.op = "import_servers" /\ FailedImports(calls') # {})
          => store' = store /\ nextPid' = nextPid
     /\ (event'.op = "imported" /\ FailedImports(calls) # {})
          => /\ out' = {"alert:importFailed"}
             /\ store' = store
             /\ slist' = slist
             /\ BagToSet(calls') \subseteq BagToSet(calls)]_vars

\* An import of the backup under another password than the one of its export
\* has failed, with a profile in the store.
C11_Witness ==
  /\ event.op = "imported"
  /\ out = {"alert:importFailed"}
  /\ Stored(store) # {}
  /\ backup.file # <<>>
  /\ \A p \in Pids : store[p] = SeedStore[p]

\* The import_servers calls that have returned for a backup exported under
\* another password than the one typed for the import.
WrongPassword(B) ==
  {f \in BagToSet(B) : /\ f.pc = "import_done"
                       /\ f.data # <<>>
                       /\ f.data[1].intact
                       /\ f.data[1].typed # f.typed}

C13_RequestIdIsProp ==
  \A f \in PendingCalls : f.pc = "save_sent" => f.form[1].id = f.prop

\* The calls the step has answered or made that stand at pc.
Arrived(pc) == {f \in Added(calls, calls') : f.pc = pc}

\* The calls the step has resumed that stood at pc.
Resumed(pc) == {f \in Added(calls', calls) : f.pc = pc}

\* Whether profile p has, field by field, what form (a request or the form of
\* the component) says: name, host, port, username, the selected auth variant
\* with its secret, the proxy when enabled, the notes.
Same(form, p) ==
  /\ p.name = form.name /\ p.host = form.host /\ p.port = form.port
  /\ p.username = form.username /\ p.notes = form.notes
  /\ IF form.auth_type = "key"
     THEN /\ p.auth.type = "PrivateKey"
          /\ p.auth.key = form.private_key
          /\ p.auth.passphrase = form.passphrase
     ELSE /\ p.auth.type = "Password"
          /\ p.auth.value = form.password
  /\ IF form.proxy_enabled
     THEN /\ Len(p.proxy) = 1
          /\ p.proxy[1].proxy_type = form.proxy_type
          /\ p.proxy[1].host = form.proxy_host
          /\ p.proxy[1].port = form.proxy_port
          /\ p.proxy[1].username = form.proxy_username
          /\ p.proxy[1].password = form.proxy_password
     ELSE p.proxy = <<>>

\* C12: a saved profile is read back equal in all fields until it is saved
\* again or deleted: a successful save_server stores the request under the id
\* it returns, get_server returns the stored profile or fails when the id has
\* none (after delete_server), the form shows the returned profile field by
\* field, and only save_server, delete_server and import_servers change the
\* store.
C12_SaveThenGet ==
  [][/\ \A f \in Arrived("save_done") :
          f.ok => /\ store'[f.id] # <<>>
                  /\ store'[f.id][1].id = f.id
                  /\ Same(f.form[1], store'[f.id][1])
     /\ \A g \in Arrived("get_done") :
          IF store[g.id] = <<>> THEN ~g.ok ELSE g.ok /\ g.form = store[g.id]
     /\ \A g \in Resumed("get_done") :
          g.ok => /\ sform'.form.id = g.form[1].id
                  /\ Same(sform'.form, g.form[1])
     /\ \A d \in Arrived("del_done") : store'[d.id] = <<>>
     /\ event'.op \notin {"save_server", "delete_server", "import_servers"}
          => store' = store]_vars

\* The profile saved from the form with a key, a passphrase and notes has been
\* read back into the form.
C12_Witness ==
  /\ event.op = "loaded" /\ event.c # 0
  /\ sform.form.id = event.c
  /\ sform.form.name = "db"
  /\ sform.form.passphrase = "pp"
  /\ store[event.c] # <<>>
  /\ Same(sform.form, store[event.c][1])

\* C14: save_server is never invoked with an empty name, host or username,
\* nor with an empty secret for the selected auth variant; a rejected submit
\* alerts, sends no request, emits neither 'saved' nor 'close' and leaves the
\* form as it is.
C14_NoEmptyRequired ==
  [][/\ \A f \in Arrived("save_sent") :
          LET request == f.form[1]
          IN /\ request.name # "" /\ request.host # "" /\ request.username # ""
             /\ request.auth_type = "password" => request.password # ""
             /\ request.auth_type = "key" => request.private_key # ""
     /\ (event'.op = "submit" /\ Arrived("save_sent") = {})
          => /\ out' \in {{"alert:required"}, {"alert:passwordRequired"},
                          {"alert:privateKeyRequired"}}
             /\ calls' = calls
             /\ sform' = sform]_vars

\* A submit with a key selected and no key given has been rejected.
C14_Witness ==
  /\ event.op = "submit"
  /\ out = {"alert:privateKeyRequired"}
  /\ sform.form.auth_type = "key" /\ sform.form.private_key = ""
  /\ sform.form.name # ""


\* The invocations of component 1 that a step adds, and those it ends.
New == BagToSet(flows'[1] (-) flows[1])

Gone == BagToSet(flows[1] (-) flows'[1])

Hello == <<104, 101, 108, 108, 111>>

\* C16: a save sends the UTF-8 bytes of the editor's text for the edited
\* file; a served write leaves exactly its bytes as the whole content of the
\* file and a served create leaves the file empty; a served read returns exactly
\* the content of the file, which is the bytes of the last served write of that
\* path; and the editor shows the text of the bytes that were read.
C16_ReadReturnsLastWrite ==
  [][/\ \A g \in New :
          /\ g.pc = "write_sent" =>
               /\ g.path = fb[1].editorFile
               /\ decode(Uint8Array(g.data)) = fb[1].editorContent
          /\ g.pc = "write_ok" => fs'[g.path] = <<g.data>>
          /\ g.pc = "create_ok" => fs'[g.path] = << <<>> >>
          /\ g.pc = "read_ok" =>
               /\ fs[g.path] = <<g.data>>
               /\ lastWrite[g.path] # <<>> => lastWrite[g.path] = <<g.data>>
     /\ \A f \in Gone :
          f.pc = "read_ok" => fb'[1].editorContent = decode(Uint8Array(f.data))
    ]_vars

\* The file "/b" was created, "hello" was saved to it, it was read again
\* and the editor shows "hello".
C16_Witness ==
  /\ lastWrite["/b"] = <<Hello>>
  /\ event = Ev("response", 1)
  /\ fb[1].showEditor /\ ~fb[1].editorLoading
  /\ fb[1].editorFile = "/b" /\ fb[1].editorContent = Hello
  /\ fs["/b"] = <<Hello>>


\* The request of a listing of path for the session component 1 holds.
Lists(g, path) ==
  g.pc = "list_sent" /\ g.sid = fb[1].sessionId /\ g.sid # 0 /\ g.path = path

StatusOf(c) == IF kind[c] = "sftp" THEN fb[c].status ELSE term[c].status

HeldBy(c) == IF kind[c] = "sftp" THEN fb[c].sessionId ELSE term[c].sessionId

StatusAfter(c) == IF kind'[c] = "sftp" THEN fb'[c].status ELSE term'[c].status

HeldAfter(c) == IF kind'[c] = "sftp" THEN fb'[c].sessionId ELSE term'[c].sessionId

\* C18: the status of a mounted component leaves 'connecting' only to
\* 'connected' with a session id held, or to 'error'; it never goes from
\* 'error' to 'connected' in one step; and whenever it is 'connected' a
\* session id is held.
C18_StatusMachine ==
  [][\A c \in Comps :
       life[c] = "mounted" /\ life'[c] = "mounted" =>
         /\ StatusOf(c) = "connecting" /\ StatusAfter(c) # "connecting" =>
              \/ StatusAfter(c) = "connected" /\ HeldAfter(c) # 0
              \/ StatusAfter(c) = "error"
         /\ StatusOf(c) = "error" => StatusAfter(c) # "connected"
         /\ StatusAfter(c) = "connected" => HeldAfter(c) # 0
    ]_vars


\* C19: once the remote end of the session a mounted Terminal holds has gone
\* away and nothing is pending any more, the Terminal does not show
\* 'connected'.
C19_RemoteEndSurfaced ==
  \A c \in Comps :
    /\ life[c] = "mounted" /\ kind[c] = "terminal"
    /\ term[c].sessionId # 0 /\ sessions[term[c].sessionId].ended # "none"
    /\ Quiet(c) /\ wire = <<>>
    => term[c].status # "connected"


DisconnectIssued(sid) ==
  \/ hist[sid].done
  \/ \E c \in Comps : \E f \in Pending(c) : f.pc \in {"disc_sent", "disc_done"} /\ f.sid = sid

\* C21: every ssh_write and ssh_resize a Terminal issues names a session id
\* that ssh_connect has returned to it and for which it has not issued
\* ssh_disconnect, a call still in flight included.
C21_OnlyConnectedSessions ==
  [][\A r \in NewRequests : hist[r.sid].returned /\ ~DisconnectIssued(r.sid)]_vars


\* C22: once a component is unmounted and none of its calls is pending, every
\* session id that a connect call returned to it has been passed to
\* disconnect: disconnect() has completed for it and the session is closed.
C22_NoSessionOutlivesComponent ==
  \A c \in Comps :
    (life[c] = "unmounted" /\ Quiet(c)) =>
      \A sid \in Sids :
        (hist[sid].owner = c /\ hist[sid].returned) =>
          hist[sid].done /\ ~sessions[sid].live


\* The session ids a connect call has returned to component c and for which
\* the component has not issued a disconnect request.
Owned(c) == {sid \in Sids : hist[sid].owner = c /\ hist[sid].returned
                             /\ ~DisconnectIssued(sid)}

\* C23: a Terminal never owns more than one session: at most one session id
\* has been returned to it without having been passed to ssh_disconnect.
C23_AtMostOneSession ==
  \A c \in Comps : kind[c] = "terminal" => Cardinality(Owned(c)) <= 1


\* C24: in the step in which disconnect() of the Terminal returns or throws,
\* sessionId, the data listener and the resize observer are cleared, and so
\* is the terminal instance unless the caller goes on to connect().
C24_DisconnectReleasesAll ==
  [][\A f \in Gone :
       f.pc \in {"disc_done", "disc_err"} =>
         /\ term'[1].sessionId = 0
         /\ term'[1].unlistenData = 0
         /\ ~term'[1].resizeObserver
         /\ (f.pc = "disc_err" \/ f.next = "none") => ~term'[1].terminal
    ]_vars


\* The sftp_read_file calls of component 1 that have not settled.
Reading == {f \in Pending(1) : f.pc \in {"read_sent", "read_ok", "read_err"}}

\* C25: once no sftp_read_file call is pending, the editor that is shown for
\* a file holds the content read from that file's path (or the user's edits
\* of it), and every sftp_write_file request names the path its content was
\* read from.
C25_EditorContentOfItsFile ==
  [][/\ (Reading' = {} /\ fb'[1].showEditor /\ fb'[1].editorFile # "") =>
          fb'[1].contentFrom = fb'[1].editorFile
     /\ \A g \in New : g.pc = "write_sent" => g.path = fb[1].contentFrom
    ]_vars


\* C26: the step that handles a rejected sftp_list_dir leaves currentPath,
\* the displayed files and selectedFile as they are and sets loading to
\* false; currentPath changes only in the step that handles a successful
\* listing of the new path, which also installs that listing's entries.
C26_FailedListingKeepsState ==
  [][/\ \A f \in Gone :
          f.pc = "list_err" =>
            /\ fb'[1].currentPath = fb[1].currentPath
            /\ fb'[1].files = fb[1].files
            /\ fb'[1].selectedFile = fb[1].selectedFile
            /\ ~fb'[1].loading
     /\ fb'[1].currentPath # fb[1].currentPath =>
          \E f \in Gone : /\ f.pc = "list_ok" /\ f.path = fb'[1].currentPath
                          /\ fb'[1].files = f.list
    ]_vars

\* The mounted browser shows "/" with an entry selected; a listing of "/etc"
\* was rejected, the alert was shown and the browser is idle again.
C26_Witness ==
  /\ life[1] = "mounted" /\ event = Ev("response", 1)
  /\ fb[1].alert = "sftp.loadFailed" /\ ~fb[1].loading /\ Quiet(1)
  /\ fb[1].currentPath = "/" /\ fb[1].files # <<>> /\ fb[1].selectedFile # 0


\* C27: a delete confirmation dialog that is shown has a target, in the file
\* browser and in the server list, and every sftp_delete and delete_server
\* request is issued from the shown dialog for the dialog's target.
C27_DeleteOnlyConfirmed ==
  [][/\ fb'[1].showDeleteConfirm => fb'[1].deleteTarget # <<>>
     /\ slist'.showDeleteConfirm => slist'.deleteTarget # 0
     /\ \A g \in New :
          g.pc = "delete_sent" =>
            /\ fb[1].showDeleteConfirm /\ fb[1].deleteTarget # <<>>
            /\ g.path = fb[1].deleteTarget[1].path
     /\ \A d \in BagToSet(calls' (-) calls) :
          d.pc = "del_sent" =>
            slist.showDeleteConfirm /\ d.id = slist.deleteTarget /\ d.id # 0
    ]_vars


\* The index of the tab of component c in the tab list (0: none).
TabOf(c) == IF \E i \in 1..Len(tabs) : tabs[i].comp = c
            THEN CHOOSE i \in 1..Len(tabs) : tabs[i].comp = c ELSE 0

\* C28: activeTab is null exactly when the tab list is empty and is otherwise
\* a tab of the list; closing the active tab activates the tab before it, or
\* the new first tab when it was the first, and closing another tab leaves
\* activeTab unchanged.
C28_ActiveTabInList ==
  [][/\ (activeTab' = 0) <=> (tabs' = <<>>)
     /\ activeTab' # 0 => \E i \in 1..Len(tabs') : tabs'[i].comp = activeTab'
     /\ Len(tabs') < Len(tabs) =>
          LET i == TabOf(event'.c)
          IN /\ i # 0 /\ tabs' = splice(tabs, i)
             /\ activeTab' = IF activeTab # tabs[i].comp THEN activeTab
                             ELSE IF tabs' = <<>> THEN 0
                             ELSE IF i = 1 THEN tabs'[1].comp
                             ELSE tabs[i - 1].comp
    ]_vars

\* Of two tabs the first has been closed: the tab that was
\* second is the only one and is active.
C28_Witness ==
  /\ event = Ev("unmount", 1) /\ life[1] = "unmounted"
  /\ Len(tabs) = 1 /\ tabs[1].comp = 2 /\ activeTab = 2 /\ life[2] = "mounted"


\* The sessions of kind k ("terminal" or "sftp") that a component created for
\* server s holds open: live, with no disconnect request issued for them.
OpenFor(k, s) ==
  {sid \in Sids :
     /\ hist[sid].owner # 0 /\ kind[hist[sid].owner] = k
     /\ props[hist[sid].owner].server = s
     /\ sessions[sid].live
     /\ ~\E c \in Comps : \E f \in Pending(c) : f.pc \in DiscSent /\ f.sid = sid}

\* C29: no two tabs of the list have the same type and the same server, and
\* at most one terminal session and at most one SFTP session is open for a
\* server through the tab bar.
C29_OneTabPerServer ==
  /\ \A i, j \in 1..Len(tabs) :
       (tabs[i].type = tabs[j].type /\ tabs[i].server = tabs[j].server) => i = j
  /\ \A k \in {"terminal", "sftp"}, s \in Servers : Cardinality(OpenFor(k, s)) <= 1


\* The calls of handlePasswordSubmit that the step has brought to their end:
\* a failed export, the save dialog and the write of the file, an import.
Ended ==
  {f \in Resumed("export_done") : ~f.ok} \cup Resumed("save_sent")
    \cup Resumed("import_done")

\* C30: export_servers is requested only with a password that equals its
\* confirmation and has at least 4 characters, import_servers only with a
\* non-empty password; a rejected submit sends nothing and leaves the dialog
\* open; and the step that ends a submit that sent a request closes the
\* dialog and resets loading, whatever the outcome.
C30_BackupGated ==
  [][/\ \A g \in Arrived("export_sent") :
          /\ settings.password = settings.confirmPassword
          /\ Len(settings.password) >= 4
          /\ g.pw = settings.password
     /\ \A g \in Arrived("import_sent") :
          Len(settings.password) >= 1 /\ g.pw = settings.password
     /\ (event'.op = "passwordSubmit" /\ out' # {}) =>
          /\ calls' = calls /\ settings' = settings
          /\ settings'.showPasswordModal
     /\ Ended # {} => ~settings'.showPasswordModal /\ ~settings'.loading
    ]_vars

\* A submit with the password "abc" and its confirmation "abc" has been
\* rejected as too short: nothing is in flight and the dialog is still open.
C30_Witness ==
  /\ event.op = "passwordSubmit" /\ out = {"alert:passwordTooShort"}
  /\ settings.password = <<97, 98, 99>> /\ settings.confirmPassword = <<97, 98, 99>>
  /\ settings.showPasswordModal /\ ~settings.loading
  /\ \A f \in PendingCalls : f.pc # "export_sent"
  /\ backup.file # <<>>

====
